---------------------------- MODULE Spec2Model ----------------------------
(***************************************************************************)
(* Room / match lifecycle of the kuexd multiplayer server.                 *)
(*                                                                         *)
(* The Node process is one event loop: every socket event handler and      *)
(* every timer callback runs to completion, so each handler and each       *)
(* callback is one atomic action of the model.  The handlers are written   *)
(* as operators on a record `st` that holds the mutable heap (the master   *)
(* `games` object, the registry module's own `games` object, the live      *)
(* countdown intervals) together with the events emitted so far in the     *)
(* running handler; an action evaluates the handler on the current heap    *)
(* and commits the result.                                                 *)
(***************************************************************************)
EXTENDS Integers, Sequences, FiniteSets, TLC

VARIABLES
    games,      \* sockets/index.js `games`: gameId -> {rooms, activeRooms, io, id}
    registry,   \* the `games` object of the registry module (entries made by getGame)
    timers,     \* live countdown intervals, in the order they fire next
    nextId,     \* per game, the number of room ids generated so far
    sock,       \* per connection: "new", "open" or "closed"
    hist,       \* per game and room id, what has happened to the room so far
    budget,     \* the number of client events this run may still deliver
    crashed     \* an exception escaped a handler or a timer callback

vars == <<games, registry, timers, nextId, sock, hist, budget, crashed>>

---------------------------------------------------------------------------
(* Bounds of the exploration *)

\* Connections (socket ids).  A closed connection's id is never reused.
Sockets == {"s1", "s2", "s3"}

\* Game ids the clients send: "1" is Biggest Tomato, "2" the Agar.io clone.
GameIds == {"1", "2"}

\* The key a game object is filed under when its `id` was never set.
UNDEF == "undefined"

\* The key Number("undefined") is filed under.
NAN == "NaN"

GameKeys == GameIds \cup {UNDEF, NAN}

\* Client events (connections included) delivered in a run of Spec.
MaxEvents == 6

\* Room ids generated per game (generateRoomId is modelled as a fresh id);
\* every new room takes a client event, so the ids never run out.
MaxRoomIds == MaxEvents + 1

\* Countdown intervals alive at the same time: each takes a client event.
MaxTimers == MaxEvents + 1

RoomIds == 1..MaxRoomIds

\* The room id a client names that no room of the game has.
AbsentRoom == 0

---------------------------------------------------------------------------
(* Program constants *)

COUNTDOWN == 10

MAX_PLAYERS == 4

---------------------------------------------------------------------------
(* Sequence helpers *)

SeqToSet(s) == {s[i] : i \in DOMAIN s}

RemoveAt(s, i) == [j \in 1..(Len(s) - 1) |-> IF j < i THEN s[j] ELSE s[j + 1]]

\* Index of the first element of s satisfying Test, 0 when there is none.
FindIndex(s, Test(_)) ==
    IF \E i \in DOMAIN s : Test(s[i])
    THEN CHOOSE i \in DOMAIN s : Test(s[i]) /\ \A j \in 1..(i - 1) : ~Test(s[j])
    ELSE 0

---------------------------------------------------------------------------
(* Data *)

\* A player object before its engine fields are set.
NewPlayer ==
    [isReady |-> FALSE, isDead |-> FALSE, cards |-> <<>>,
     x |-> 0, y |-> 0, lastDx |-> 0, lastDy |-> 0]

\* The room object ensureSingleEmptyRoom creates; the engine fields are the
\* ones the start routines add later (absent fields are shown by defaults).
NewRoom(id) ==
    [id |-> id, maxPlayers |-> MAX_PLAYERS, players |-> <<>>,
     obj |-> [s \in Sockets |-> NewPlayer], isActive |-> FALSE,
     engine |-> "none",
     playedCards |-> <<>>, currentPlayerIndex |-> 0,
     currentPlayerSocketId |-> "", winner |-> "null",
     playersMap |-> {}, alivePlayers |-> {}, bullets |-> <<>>,
     bulletIdCounter |-> 0, bulletPool |-> <<>>, nextRef |-> 1,
     playerSpatialIndex |-> <<>>, bulletInterval |-> FALSE]

NewGame == [exists |-> FALSE, rooms |-> <<>>, activeRooms |-> <<>>,
            io |-> FALSE, id |-> FALSE]

\* What is remembered of a room id: countdowns started for it, the
\* countdownUpdate events emitted for it and their values, how often it was
\* moved to activeRooms, whether an end routine removed it from activeRooms,
\* whether it was deleted from the lobby, whether a countdown ran down for it
\* with no other event for the room in between.
NewHist == [cdStarted |-> 0, cdCount |-> 0, cdSeen |-> {},
            moved |-> 0, ended |-> FALSE, tornDown |-> FALSE,
            undisturbed |-> FALSE]

Event(type, g, room, n, who) ==
    [type |-> type, g |-> g, room |-> room, n |-> n, who |-> who,
     rooms |-> <<>>, players |-> {},
     lastPlayedCard |-> "null", playedCardHistory |-> <<>>,
     cards |-> <<>>]

RoomsEvent(g, ids) ==
    [type |-> "roomsList", g |-> g, room |-> 0, n |-> 0, who |-> "",
     rooms |-> ids, players |-> {},
     lastPlayedCard |-> "null", playedCardHistory |-> <<>>,
     cards |-> <<>>]

\* gameStateUpdate of the Agar.io clone.
StateEvent(g, room, winner, players) ==
    [type |-> "gameStateUpdate", g |-> g, room |-> room, n |-> 0, who |-> winner,
     rooms |-> <<>>, players |-> players,
     lastPlayedCard |-> "null", playedCardHistory |-> <<>>,
     cards |-> <<>>]

\* gameStateUpdate of Biggest Tomato: the card before the last one is shown
\* as the last played card, the older ones as the history.
\* Each player's entry carries cards: p.cards || [].
DuelStateEvent(g, room, winner, players, played, hands) ==
    [type |-> "gameStateUpdate", g |-> g, room |-> room, n |-> 0, who |-> winner,
     rooms |-> <<>>, players |-> players,
     lastPlayedCard |-> IF Len(played) >= 2 THEN played[Len(played) - 1]
                        ELSE "null",
     playedCardHistory |-> IF Len(played) > 2 THEN SubSeq(played, 1, Len(played) - 2)
                           ELSE <<>>,
     cards |-> hands]

\* Position of room id r in a sequence of rooms, 0 when absent (rooms[id]).
RoomAt(rs, r) == FindIndex(rs, LAMBDA rm : rm.id = r)

HasRoom(rs, r) == RoomAt(rs, r) # 0

GetRoom(rs, r) == rs[RoomAt(rs, r)]

DeleteRoom(rs, r) == SelectSeq(rs, LAMBDA rm : rm.id # r)

PutRoom(rs, rm) ==
    IF HasRoom(rs, rm.id) THEN [rs EXCEPT ![RoomAt(rs, rm.id)] = rm]
    ELSE Append(rs, rm)

IsEmptyRoom(rm) == Len(rm.players) = 0

RoomIdsOf(rs) == [i \in DOMAIN rs |-> rs[i].id]

\* The heap a handler starts from; `room` is the room object the running
\* handler holds a reference to.
Cur == [games |-> games, registry |-> registry, timers |-> timers,
        nextId |-> nextId, hist |-> hist,
        ev |-> <<>>, err |-> FALSE, blocked |-> FALSE, room |-> NewRoom(0)]

Emit(st, e) == [st EXCEPT !.ev = Append(@, e)]

Note(st, g, r, field, val) ==
    IF g \in GameIds /\ r \in RoomIds
    THEN [st EXCEPT !.hist[g][r][field] = val]
    ELSE st

---------------------------------------------------------------------------
(* utils/gameUtils.js *)

\* getGame: creates the entry on first use.
getGame(st, g) ==
    IF st.games[g].exists THEN st
    ELSE [st EXCEPT !.games[g].exists = TRUE]

\* getGame applied to the registry module's own `games` object.
getGameRegistry(st, g) ==
    IF st.registry[g].exists THEN st
    ELSE [st EXCEPT !.registry[g].exists = TRUE]

\* generateRoomId: seven random base-36 digits, taken to be an id no room of
\* the game had before; the exploration stops at MaxRoomIds.
generateRoomId(st, g) == st.nextId[g] + 1

\* A delete that does not happen.
DeleteLobbyRoom_Kept(st, g, r) == st

\* delete game.rooms[id]; deleting a lobby room that still has a countdown
\* running tears it down.
DeleteLobbyRoom(st, g, r) ==
    LET s1 == [st EXCEPT !.games[g].rooms = DeleteRoom(@, r)]
    IN  IF g \in GameIds /\ r \in RoomIds /\ HasRoom(st.games[g].rooms, r)
        THEN Note(s1, g, r, "tornDown", TRUE)
        ELSE s1

ensureSingleEmptyRoom(st, g) ==
    LET s0 == getGame(st, g)
        rs == s0.games[g].rooms
        empties == SelectSeq(rs, IsEmptyRoom)
        RECURSIVE Prune(_, _)
        \* while (emptyRooms.length > 1) delete rooms[emptyRooms.pop().id]
        Prune(s, k) == IF k < 2 THEN s
                       ELSE Prune(DeleteLobbyRoom(s, g, empties[k].id), k - 1)
        s1 == Prune(s0, Len(empties))
        newRoomId == generateRoomId(s1, g)
    IN  IF Len(empties) = 0
        THEN IF newRoomId > MaxRoomIds
             THEN [s1 EXCEPT !.blocked = TRUE]
             ELSE [s1 EXCEPT !.games[g].rooms = Append(@, NewRoom(newRoomId)),
                             !.nextId[g] = newRoomId]
        ELSE s1

\* broadcastRooms on the master games object: roomsList of the lobby rooms.
broadcastRooms(st, g) ==
    LET s0 == getGame(st, g)
    IN  Emit(s0, RoomsEvent(g, RoomIdsOf(s0.games[g].rooms)))

\* broadcastRooms handed the registry module's `games` object.
broadcastRoomsRegistry(st, g) ==
    LET s0 == getGameRegistry(st, g)
    IN  Emit(s0, RoomsEvent(g, RoomIdsOf(s0.registry[g].rooms)))

allPlayersReady(room) ==
    IF Len(room.players) = 0 THEN FALSE
    ELSE \A i \in DOMAIN room.players : room.obj[room.players[i]].isReady

\* startCountdown: a new interval with its own counter; nothing is cancelled.
startCountdown(st, g, r) ==
    IF Len(st.timers) >= MaxTimers
    THEN [st EXCEPT !.blocked = TRUE]
    ELSE LET s1 == [st EXCEPT !.timers =
                        Append(@, [g |-> g, room |-> r, countdown |-> COUNTDOWN,
                                   clean |-> st.hist[g][r].cdStarted = 0])]
         IN  Note(s1, g, r, "cdStarted", st.hist[g][r].cdStarted + 1)


SetLobby(st, g, room) == [st EXCEPT !.games[g].rooms = PutRoom(@, room)]

SetActive(st, g, room) == [st EXCEPT !.games[g].activeRooms = PutRoom(@, room)]

\* An event for room r of game g arrived: the countdowns running for the room
\* no longer run undisturbed.
Touch(st, g, r) ==
    [st EXCEPT !.timers =
        [i \in DOMAIN @ |->
            IF @[i].g = g /\ @[i].room = r THEN [@[i] EXCEPT !.clean = FALSE]
            ELSE @[i]]]

HasPlayer_Never(room, s) == FALSE

HasPlayer(room, s) == \E i \in DOMAIN room.players : room.players[i] = s

RemovePlayer_Kept(room, s) == room

\* room.players.filter(p => p.socketId !== socket.id); the object is dropped
\* unless the spatial index still refers to it.
RemovePlayer(room, s) ==
    [room EXCEPT !.players = SelectSeq(@, LAMBDA p : p # s),
                 !.obj[s] = IF \E i \in DOMAIN room.playerSpatialIndex :
                                   room.playerSpatialIndex[i].socketId = s
                            THEN @ ELSE NewPlayer]

---------------------------------------------------------------------------
(* sockets/games/biggestTomato.js *)

rankOrder == <<"A", "2", "3", "4", "5", "6", "7", "8", "9", "10", "J", "Q", "K">>

\* Array.prototype.indexOf, 0-based, -1 when absent.
IndexOf(seq, v) == FindIndex(seq, LAMBDA e : e = v) - 1

\* Outcomes of shuffleDeck the exploration draws from.
Decks ==
    { rankOrder,
      <<"5", "K", "2", "9", "A", "3", "Q", "7", "4", "J", "10", "6", "8">> }

DECK_SIZE == 13

HAND_SIZE == 5

Min(a, b) == IF a < b THEN a ELSE b

Hand_NoSplice(deck, i) == SubSeq(deck, 1, HAND_SIZE)

\* player.cards = deck.slice(0, 5); deck.splice(0, 5) for the i-th player.
Hand(deck, i) ==
    SubSeq(deck, HAND_SIZE * (i - 1) + 1, Min(HAND_SIZE * i, DECK_SIZE))

\* startBiggestTomatoRoom, with the shuffled deck as input.
startBiggestTomatoRoom(room, deck) ==
    IF Len(room.players) = 0 THEN room
    ELSE LET seat(s) == FindIndex(room.players, LAMBDA p : p = s)
             hand(i) == Hand(deck, i)
         IN  [room EXCEPT
                !.obj = [s \in Sockets |->
                           IF seat(s) # 0
                           THEN [@[s] EXCEPT !.isDead = FALSE,
                                             !.cards = hand(seat(s))]
                           ELSE @[s]],
                !.playedCards = <<>>,
                !.currentPlayerIndex = 0,
                !.currentPlayerSocketId = room.players[1],
                !.winner = "null",
                !.engine = "duel"]

\* biggestTomato broadcastGameState: throws when the room has no playedCards.
DuelBroadcast(st, g, room) ==
    IF room.engine # "duel" THEN [st EXCEPT !.err = TRUE]
    ELSE Emit(st, DuelStateEvent(g, room.id, room.winner, SeqToSet(room.players),
                                 room.playedCards,
                                 [s \in SeqToSet(room.players) |-> room.obj[s].cards]))

endBiggestTomatoRoom_ToLobby(st, g, room) ==
    IF HasRoom(st.games[g].activeRooms, room.id)
    THEN SetLobby([st EXCEPT !.games[g].activeRooms = DeleteRoom(@, room.id),
                             !.room = room], g, room)
    ELSE [st EXCEPT !.room = room]

\* endBiggestTomatoRoom: removes the room from activeRooms if it is there.
endBiggestTomatoRoom(st, g, room) ==
    LET s1 == [st EXCEPT !.room = room]
    IN  IF HasRoom(st.games[g].activeRooms, room.id)
        THEN Note([s1 EXCEPT !.games[g].activeRooms = DeleteRoom(@, room.id)],
                  g, room.id, "ended", TRUE)
        ELSE s1

---------------------------------------------------------------------------
(* sockets/games/agarIo.js *)

WORLD_WIDTH == 1080

WORLD_HEIGHT == 1080

PLAYER_MASS == 10

\* Outcomes of the random spawn position the exploration draws from.
\* Both are one bullet step apart and close to the right and the upper edge
\* of the world.
SpawnPoints == { [x |-> 1040, y |-> 2], [x |-> 1070, y |-> 2] }

\* The assignments of spawn positions to connections that are explored: the
\* first connection at the first point, the third at the second, the second
\* at either.
Spawns == {f \in [Sockets -> SpawnPoints] : f["s1"].x = 1040 /\ f["s3"].x = 1070}

IndexEntry(s, x, y) == [socketId |-> s, x |-> x, y |-> y]

\* RBush.remove with the socketId comparator: with at most nine entries the
\* root is a leaf, and the first entry of the same socket is removed.
IndexRemove(index, s) ==
    LET i == FindIndex(index, LAMBDA e : e.socketId = s)
    IN  IF i = 0 THEN index ELSE RemoveAt(index, i)

IndexInsert(index, s, x, y) == Append(index, IndexEntry(s, x, y))

\* startAgarIoRoom, with the random spawn positions as input.
startAgarIoRoom(room, spawn) ==
    LET seated == SeqToSet(room.players)
        obj1 == [s \in Sockets |->
                    IF s \in seated
                    THEN [room.obj[s] EXCEPT !.x = spawn[s].x, !.y = spawn[s].y,
                                             !.isDead = FALSE,
                                             !.lastDx = 0, !.lastDy = 0]
                    ELSE room.obj[s]]
    IN  [room EXCEPT
           !.obj = obj1,
           !.playersMap = seated,
           !.alivePlayers = seated,
           !.bullets = <<>>,
           !.bulletIdCounter = 1,
           !.bulletPool = <<>>,
           !.playerSpatialIndex =
               [i \in DOMAIN room.players |->
                   IndexEntry(room.players[i], obj1[room.players[i]].x,
                              obj1[room.players[i]].y)],
           !.bulletInterval = TRUE,
           !.winner = "null",
           !.engine = "arena"]

\* The channel key built from game.id: "undefined" until joinGameChannel set it.
IdKey(st, g) == IF st.games[g].id THEN g ELSE UNDEF

\* agarIo broadcastGameState(io, gameId, roomId, room): returns when io is
\* missing; throws when the room has no alivePlayers set or an alive id has
\* no entry in playersMap.
ArenaBroadcast(st, hasIo, key, room) ==
    IF ~hasIo THEN st
    ELSE IF room.engine # "arena" \/ ~(room.alivePlayers \subseteq room.playersMap)
    THEN [st EXCEPT !.err = TRUE]
    ELSE Emit(st, StateEvent(key, room.id, room.winner, room.alivePlayers))

RemoveActiveRoom_Kept(st, g, room) ==
    IF HasRoom(st.games[g].activeRooms, room.id) THEN SetActive(st, g, room) ELSE st

\* Step 4 of endAgarIoRoom: delete game.activeRooms[room.id] when present.
RemoveActiveRoom(st, g, room) ==
    IF HasRoom(st.games[g].activeRooms, room.id)
    THEN Note([st EXCEPT !.games[g].activeRooms = DeleteRoom(@, room.id)],
              g, room.id, "ended", TRUE)
    ELSE st

ClearInterval_Kept(room) == room

\* Step 1 of endAgarIoRoom: clearInterval(room.bulletInterval).
ClearInterval(room) == [room EXCEPT !.bulletInterval = FALSE]

\* endAgarIoRoom(game, room, games): `registryGames` tells which `games`
\* object the caller handed over; `spawn` is the random respawn input.
endAgarIoRoom(st, g, room, registryGames, spawn) ==
    LET \* 1. clear the bullet interval
        r1 == ClearInterval(room)
        \* 2. recycle all bullets
        r2 == IF room.engine = "arena"
              THEN [r1 EXCEPT !.bulletPool = @ \o r1.bullets, !.bullets = <<>>]
              ELSE r1
        \* 3. reset every player of playersMap and re-insert it in the index
        RECURSIVE Reinsert(_, _)
        Reinsert(index, todo) ==
            IF todo = {} THEN index
            ELSE LET s == CHOOSE p \in todo :
                            \A q \in todo :
                               FindIndex(room.players, LAMBDA e : e = p)
                                 <= FindIndex(room.players, LAMBDA e : e = q)
                 IN  Reinsert(IndexInsert(IndexRemove(index, s), s,
                                          spawn[s].x, spawn[s].y),
                              todo \ {s})
        r3 == IF room.engine = "arena"
              THEN [r2 EXCEPT
                      !.obj = [s \in Sockets |->
                                 IF s \in r2.playersMap
                                 THEN [@[s] EXCEPT !.isDead = FALSE,
                                                   !.x = spawn[s].x,
                                                   !.y = spawn[s].y,
                                                   !.lastDx = 0, !.lastDy = 0]
                                 ELSE @[s]],
                      !.playerSpatialIndex = Reinsert(@, r2.playersMap),
                      !.alivePlayers = r2.playersMap]
              ELSE r2
        \* 4. remove the room from activeRooms
        s1 == RemoveActiveRoom(st, g, r3)
        s2 == [s1 EXCEPT !.room = r3]
        key == IdKey(s2, g)
    IN  \* 5. game.io.to(...) throws when game.io was never set
        IF ~s2.games[g].io THEN [s2 EXCEPT !.err = TRUE]
        ELSE LET s3 == Emit(s2, Event("gameEnded", key, room.id, 0, r3.winner))
             IN  \* 6. broadcastRooms(game.id, games, game.io)
                 IF registryGames THEN broadcastRoomsRegistry(s3, key)
                 ELSE broadcastRooms(s3, key)

\* The userName of a connection: every connection has its own name, shown
\* here by its socket id.
userName(s) == s

\* Infinity, the range limit of both supported bullet types.
INFINITY == -1

STEP == 4

BULLET_SPEED == 30

RADIUS_FULLY_CHARGED == 25

RADIUS_CHARGED == 5

Abs(n) == IF n < 0 THEN -n ELSE n

Max(a, b) == IF a > b THEN a ELSE b

clamp_None(value, min, max) == value

clamp(value, min, max) == Max(min, Min(max, value))

\* The move directions a client sends in the exploration ("none" is any
\* value that is none of the eight compass names).
MoveInputs == {"right", "none"}

Delta(direction) ==
    CASE direction = "up-left"    -> [dx |-> -STEP, dy |-> -STEP]
      [] direction = "up-right"   -> [dx |-> STEP,  dy |-> -STEP]
      [] direction = "down-left"  -> [dx |-> -STEP, dy |-> STEP]
      [] direction = "down-right" -> [dx |-> STEP,  dy |-> STEP]
      [] direction = "up"         -> [dx |-> 0,     dy |-> -STEP]
      [] direction = "down"       -> [dx |-> 0,     dy |-> STEP]
      [] direction = "left"       -> [dx |-> -STEP, dy |-> 0]
      [] direction = "right"      -> [dx |-> STEP,  dy |-> 0]
      [] OTHER                    -> [dx |-> 0,     dy |-> 0]

\* games[gameId] without getGame, then activeRooms[roomId] || rooms[roomId].
FindRoom(st, g, r) ==
    IF ~st.games[g].exists THEN NewRoom(AbsentRoom)
    ELSE IF HasRoom(st.games[g].activeRooms, r) THEN GetRoom(st.games[g].activeRooms, r)
    ELSE IF HasRoom(st.games[g].rooms, r) THEN GetRoom(st.games[g].rooms, r)
    ELSE NewRoom(AbsentRoom)

\* Writes back a room object found by FindRoom.
StoreRoom(st, g, room) ==
    IF HasRoom(st.games[g].activeRooms, room.id) THEN SetActive(st, g, room)
    ELSE SetLobby(st, g, room)

handlePlayerMove(st, s, g, r, direction) ==
    LET room == FindRoom(st, g, r)
    IN  IF room.id = AbsentRoom \/ s \notin room.playersMap \/ room.obj[s].isDead
        THEN st
        ELSE LET player == room.obj[s]
                 d == Delta(direction)
                 x == clamp(player.x + d.dx, 0, WORLD_WIDTH)
                 y == clamp(player.y + d.dy, 0, WORLD_HEIGHT)
                 changed == d.dx # 0 \/ d.dy # 0
                 rm == [room EXCEPT
                          !.obj[s] = [player EXCEPT
                                        !.x = x, !.y = y,
                                        !.lastDx = IF changed THEN d.dx ELSE @,
                                        !.lastDy = IF changed THEN d.dy ELSE @],
                          !.playerSpatialIndex =
                              IF changed THEN IndexInsert(IndexRemove(@, s), s, x, y)
                              ELSE @]
             IN  ArenaBroadcast(StoreRoom(Touch(st, g, r), g, rm), TRUE, g, rm)

\* The shoot payloads of the exploration: a direction along the x axis, the
\* zero vector, and a payload without a numeric direction.  `ok` says that
\* typeof direction.x and typeof direction.y are "number", `finite` that both
\* numbers are finite; x and y are the numbers when they are.
DirInputs == { [ok |-> TRUE, finite |-> TRUE, x |-> 1, y |-> 0],
               [ok |-> TRUE, finite |-> TRUE, x |-> 0, y |-> 0],
               [ok |-> FALSE, finite |-> FALSE, x |-> 0, y |-> 0] }

\* direction = { x: Infinity, y: Infinity }, what JSON.parse makes of 1e999.
InfiniteDir == [ok |-> TRUE, finite |-> FALSE, x |-> 0, y |-> 0]

BulletTypes == {"fullyCharged", "small"}

\* Math.sqrt(x*x + y*y) || 1 for a vector along an axis.
Length(d) == IF Abs(d.x) + Abs(d.y) = 0 THEN 1 ELSE Abs(d.x) + Abs(d.y)

\* (c / length) * speedValue: Infinity / Infinity is NaN.
Velocity(direction, c) ==
    IF direction.finite THEN (c \div Length(direction)) * BULLET_SPEED ELSE NAN

handleShootBullet(st, s, g, r, bulletType, direction) ==
    LET room == FindRoom(st, g, r)
    IN  IF room.id = AbsentRoom \/ s \notin room.playersMap \/ room.obj[s].isDead
        THEN st
        ELSE IF ~direction.ok \/ bulletType \notin {"charged", "fullyCharged"}
        THEN st
        ELSE LET player == room.obj[s]
                 radius == IF bulletType = "fullyCharged" THEN RADIUS_FULLY_CHARGED
                           ELSE RADIUS_CHARGED
                 pooled == Len(room.bulletPool) > 0
                 ref == IF pooled THEN room.bulletPool[Len(room.bulletPool)].ref
                        ELSE room.nextRef
                 bullet == [ref |-> ref, id |-> room.bulletIdCounter,
                            ownerId |-> s, x |-> player.x, y |-> player.y,
                            vx |-> Velocity(direction, direction.x),
                            vy |-> Velocity(direction, direction.y),
                            radius |-> radius, traveled |-> 0,
                            rangeLimit |-> INFINITY, type |-> bulletType]
                 rm == [room EXCEPT
                          !.bulletPool = IF pooled THEN SubSeq(@, 1, Len(@) - 1) ELSE @,
                          !.nextRef = IF pooled THEN @ ELSE @ + 1,
                          !.bulletIdCounter = @ + 1,
                          !.bullets = Append(@, bullet)]
                 s1 == StoreRoom(Touch(st, g, r), g, rm)
             IN  Emit(s1, Event("bulletCreated", IdKey(s1, g), room.id, bullet.id, s))

\* rbush intersects(): the query box against the box stored with an entry.
Intersects(b, e) ==
    /\ e.x - PLAYER_MASS <= b.x + b.radius
    /\ e.y - PLAYER_MASS <= b.y + b.radius
    /\ e.x + PLAYER_MASS >= b.x - b.radius
    /\ e.y + PLAYER_MASS >= b.y - b.radius

OutOfRange_Never(b) == FALSE

OutOfRange(b) ==
    \/ b.x < 0 \/ b.x > WORLD_WIDTH \/ b.y < 0 \/ b.y > WORLD_HEIGHT
    \/ (b.rangeLimit # INFINITY /\ b.traveled >= b.rangeLimit)

\* b.x += b.vx; b.y += b.vy; b.traveled += Math.sqrt(vx * vx + vy * vy)
Advance(b) ==
    [b EXCEPT !.x = @ + b.vx, !.y = @ + b.vy,
              !.traveled = @ + Abs(b.vx) + Abs(b.vy)]

Target_Any(room, b, s) == TRUE

\* if (player.socketId === b.ownerId || player.isDead) continue;
Target(room, b, s) == s # b.ownerId /\ ~room.obj[s].isDead

\* A bullet loop that recycles every bullet and splices none.
UpdateBullet_NoSplice(room, i) ==
    [room EXCEPT !.bulletPool = Append(@, Advance(room.bullets[i]))]

\* The body of the bullet loop of updateBullets for the bullet at index i.
UpdateBullet(room, i) ==
    LET b == Advance(room.bullets[i])
        index == room.playerSpatialIndex
        Hit(e) == /\ Intersects(b, e)
                  /\ Target(room, b, e.socketId)
                  /\ LET p == room.obj[e.socketId]
                         dx == b.x - p.x
                         dy == b.y - p.y
                         collisionDist == b.radius + PLAYER_MASS
                     IN  dx * dx + dy * dy < collisionDist * collisionDist
        k == FindIndex(index, Hit)
    IN  IF OutOfRange(b)
        THEN [room EXCEPT !.bulletPool = Append(@, b),
                          !.bullets = RemoveAt(@, i)]
        ELSE IF k # 0
        THEN LET victim == index[k].socketId
             IN  [room EXCEPT !.obj[victim].isDead = TRUE,
                              !.alivePlayers = @ \ {victim},
                              !.bulletPool = Append(@, b),
                              !.bullets = RemoveAt(@, i),
                              !.playerSpatialIndex = IndexRemove(@, victim)]
        ELSE [room EXCEPT !.bullets[i] = b]

RECURSIVE UpdateBulletsFrom(_, _)
\* for (let i = room.bullets.length - 1; i >= 0; i--)
UpdateBulletsFrom(room, i) ==
    IF i = 0 THEN room ELSE UpdateBulletsFrom(UpdateBullet(room, i), i - 1)

LoneSurvivor_Never(room) == FALSE

\* if (stillAlive.length === 1 && !room.winner)
LoneSurvivor(room) == Cardinality(room.alivePlayers) = 1 /\ room.winner = "null"

\* updateBullets(game, room, games): `games` is the object startAgarIoRoom
\* was handed, the registry module's own.
updateBullets(st, g, room, spawn) ==
    IF room.engine # "arena" THEN [st EXCEPT !.room = room]
    ELSE LET r1 == UpdateBulletsFrom(room, Len(room.bullets))
             stillAlive == r1.alivePlayers
             s1 == [SetActive(st, g, r1) EXCEPT !.room = r1]
         IN  IF LoneSurvivor(r1)
             THEN IF ~(stillAlive \subseteq r1.playersMap)
                  THEN [s1 EXCEPT !.err = TRUE]
                  ELSE LET w == CHOOSE p \in stillAlive : TRUE
                           r2 == [r1 EXCEPT !.winner = userName(w)]
                       IN  endAgarIoRoom(SetActive(st, g, r2), g, r2, TRUE, spawn)
             ELSE IF Cardinality(stillAlive) = 0 /\ r1.winner = "null"
             THEN endAgarIoRoom(s1, g, r1, TRUE, spawn)
             ELSE s1

\* The interval callback of startAgarIoRoom.
arenaTick(st, g, r, spawn) ==
    LET room == GetRoom(st.games[g].activeRooms, r)
        s1 == updateBullets(Touch(st, g, r), g, room, spawn)
    IN  IF s1.err THEN s1
        ELSE ArenaBroadcast(s1, s1.games[g].io, IdKey(s1, g), s1.room)

---------------------------------------------------------------------------
(* sockets/games/biggestTomato.js: the plays *)

\* The cards a client names in the exploration ("X" is no rank at all).
CardInputs == {"5", "9", "X"}

compareCards_NonStrict(cardA, cardB) ==
    IndexOf(rankOrder, cardA) >= IndexOf(rankOrder, cardB)

\* compareCards: TRUE when cardA ranks strictly above cardB.
compareCards(cardA, cardB) == IndexOf(rankOrder, cardA) > IndexOf(rankOrder, cardB)

\* nextAlivePlayer: the next seat, wrapping around, whose player is not dead.
nextAlivePlayer(room) ==
    LET n == Len(room.players)
        first == (room.currentPlayerIndex + 1) % n
        cand(k) == (first + k) % n
        IsLive(k) == ~room.obj[room.players[cand(k) + 1]].isDead
    IN  IF \E k \in 0..(n - 1) : IsLive(k)
        THEN LET k == CHOOSE j \in 0..(n - 1) :
                         IsLive(j) /\ \A h \in 0..(j - 1) : ~IsLive(h)
             IN  [room EXCEPT !.currentPlayerIndex = cand(k),
                              !.currentPlayerSocketId = room.players[cand(k) + 1]]
        ELSE room

Winner_None(alive) == "null"

\* room.winner = alive.length === 1 ? alive[0].socketId : null
Winner(alive) == IF Len(alive) = 1 THEN alive[1] ELSE "null"

handlePlayCard(st, s, g, r, card) ==
    LET room == FindRoom(st, g, r)
    IN  IF room.id = AbsentRoom THEN st
        ELSE IF s # room.currentPlayerSocketId THEN st
        ELSE IF ~HasPlayer(room, s) \/ room.obj[s].isDead THEN st
        ELSE LET played == room.playedCards
                 loses == /\ Len(played) > 0
                          /\ ~compareCards(card, played[Len(played)])
                 r1 == [room EXCEPT
                          !.obj[s].isDead = IF loses THEN TRUE ELSE @,
                          !.playedCards = Append(@, card),
                          !.obj[s].cards = SelectSeq(@, LAMBDA c : c # card)]
                 r2 == nextAlivePlayer(r1)
                 alive == SelectSeq(r2.players, LAMBDA p : ~r2.obj[p].isDead)
                 s1 == Touch(st, g, r)
             IN  IF Len(alive) <= 1
                 THEN LET r3 == [r2 EXCEPT !.winner = Winner(alive)]
                          s2 == Emit(StoreRoom(s1, g, r3),
                                     Event("gameOver", g, r, 0, r3.winner))
                      IN  endBiggestTomatoRoom(s2, g, r3)
                 ELSE DuelBroadcast(StoreRoom(s1, g, r2), g, r2)

---------------------------------------------------------------------------
(* utils/gameRegistry.js *)

\* initializeGame: start the engine of the game id, then broadcast the state.
initializeGame(st, g, room, deck, spawn) ==
    IF g = "1"
    THEN LET rm == startBiggestTomatoRoom(room, deck)
         IN  DuelBroadcast(SetActive(st, g, rm), g, rm)
    ELSE IF g = "2"
    THEN LET rm == startAgarIoRoom(room, spawn)
         IN  ArenaBroadcast(SetActive(st, g, rm), TRUE, g, rm)
    ELSE [st EXCEPT !.err = TRUE]

\* endGame(gameId, game, room, games) as called from sockets/index.js.
endGame(st, g, room, spawn) ==
    IF g = "2" THEN endAgarIoRoom(st, g, room, FALSE, spawn)
    ELSE IF g = "1" THEN endBiggestTomatoRoom(st, g, room)
    ELSE [st EXCEPT !.err = TRUE]

---------------------------------------------------------------------------
(* sockets/index.js: the handlers *)

requestRooms(st, g) == broadcastRooms(ensureSingleEmptyRoom(st, g), g)

\* A joinRoom that looks the room up as the gameplay handlers do,
\* game.activeRooms[roomId] || game.rooms[roomId].
joinRoom_AnyRoom(st, s, g, r) ==
    LET room == FindRoom(st, g, r)
    IN  IF room.id = AbsentRoom \/ HasPlayer(room, s) THEN st
        ELSE StoreRoom(st, g, [room EXCEPT !.players = Append(@, s),
                                           !.obj[s] = NewPlayer])

joinRoom(st, s, g, r) ==
    LET s0 == getGame(st, g)
    IN  IF ~HasRoom(s0.games[g].rooms, r) THEN s0
        ELSE LET room == GetRoom(s0.games[g].rooms, r)
                 t == Touch(s0, g, r)
             IN  IF HasPlayer(room, s) THEN broadcastRooms(t, g)
                 ELSE LET rm == [room EXCEPT !.players = Append(@, s),
                                             !.obj[s] = NewPlayer]
                          s1 == SetLobby(t, g, rm)
                          s2 == IF Len(rm.players) = 1
                                THEN ensureSingleEmptyRoom(s1, g)
                                ELSE s1
                      IN  broadcastRooms(s2, g)

leaveRoom_KeepEmpty(st, s, g, r) ==
    LET s0 == getGame(st, g)
    IN  IF ~HasRoom(s0.games[g].rooms, r) THEN s0
        ELSE broadcastRooms(
               SetLobby(Touch(s0, g, r), g,
                        RemovePlayer(GetRoom(s0.games[g].rooms, r), s)), g)

RoomIsSpare_Unchecked(rm, emptyRooms) == Len(emptyRooms) >= 1

\* room.players.length === 0 && emptyRooms.length > 1
RoomIsSpare(rm, emptyRooms) ==
    Len(rm.players) = 0 /\ Len(emptyRooms) > 1

leaveRoom(st, s, g, r) ==
    LET s0 == getGame(st, g)
    IN  IF ~HasRoom(s0.games[g].rooms, r) THEN s0
        ELSE LET room == GetRoom(s0.games[g].rooms, r)
                 rm == RemovePlayer(room, s)
                 s1 == SetLobby(Touch(s0, g, r), g, rm)
                 emptyRooms == SelectSeq(s1.games[g].rooms, IsEmptyRoom)
                 s2 == IF RoomIsSpare(rm, emptyRooms)
                       THEN DeleteLobbyRoom(s1, g, r)
                       ELSE s1
             IN  broadcastRooms(s2, g)

toggleReady(st, s, g, r, isReady) ==
    LET s0 == getGame(st, g)
    IN  IF ~HasRoom(s0.games[g].rooms, r) THEN s0
        ELSE LET room == GetRoom(s0.games[g].rooms, r)
                 rm == IF HasPlayer(room, s)
                       THEN [room EXCEPT !.obj[s].isReady = isReady]
                       ELSE room
                 s1 == SetLobby(Touch(s0, g, r), g, rm)
                 s2 == IF allPlayersReady(rm) THEN startCountdown(s1, g, r)
                       ELSE s1
             IN  broadcastRooms(s2, g)

Elapsed_Early(countdown) == countdown <= 1

\* if (countdown === 0)
Elapsed(countdown) == countdown = 0

MoveToActive_KeepLobby(st, g, lobbyRoom) ==
    [st EXCEPT !.games[g].activeRooms = PutRoom(@, lobbyRoom),
               !.hist[g][lobbyRoom.id].moved = @ + 1]

\* game.activeRooms[roomId] = lobbyRoom; delete game.rooms[roomId]
MoveToActive(st, g, lobbyRoom) ==
    [st EXCEPT !.games[g].activeRooms = PutRoom(@, lobbyRoom),
               !.games[g].rooms = DeleteRoom(@, lobbyRoom.id),
               !.hist[g][lobbyRoom.id].moved = @ + 1]

\* The interval callback of startCountdown, for the interval that is due.
\* All countdown intervals have the same period, so the timer list is a
\* queue: the interval that fired is re-armed behind every other one.
countdownTick(st, deck, spawn) ==
    LET t == Head(st.timers)
        g == t.g
        r == t.room
        countdown == t.countdown - 1
        h == st.hist[g][r]
        s1 == [st EXCEPT
                 !.timers = Append(Tail(@), [t EXCEPT !.countdown = countdown]),
                 !.hist[g][r] =
                     [h EXCEPT !.cdCount = @ + 1,
                               !.cdSeen = @ \cup {countdown}]]
        s2 == Emit(s1, Event("countdownUpdate", g, r, countdown, ""))
    IN  IF ~Elapsed(countdown) THEN s2
        ELSE LET \* clearInterval(intervalId)
                 s3 == getGame([s2 EXCEPT !.timers = Tail(st.timers),
                                          !.hist[g][r].undisturbed = @ \/ t.clean], g)
             IN  IF ~HasRoom(s3.games[g].rooms, r) THEN s3
                 ELSE LET lobbyRoom == [GetRoom(s3.games[g].rooms, r)
                                           EXCEPT !.isActive = TRUE]
                          s4 == MoveToActive(s3, g, lobbyRoom)
                          s5 == Emit(s4, Event("gameStart", g, r, 0, ""))
                      IN  initializeGame(s5, g, lobbyRoom, deck, spawn)

\* broadcastGameState of the registry: loadGameModule throws for a game id
\* that is neither 1 nor 2, otherwise the engine's broadcastGameState runs
\* with the server's io.
broadcastGameGeneric(st, g, room) ==
    IF g = "1" THEN DuelBroadcast(st, g, room)
    ELSE IF g = "2" THEN ArenaBroadcast(st, TRUE, g, room)
    ELSE [st EXCEPT !.err = TRUE]

\* socket.on("requestGameState"): the active room, else the lobby room, of
\* that id is broadcast; nothing happens when there is neither.
requestGameState(st, g, r) ==
    LET s0 == getGame(st, g)
        room == FindRoom(s0, g, r)
    IN  IF room.id = AbsentRoom THEN s0
        ELSE broadcastGameGeneric(s0, g, room)

endGameHandler(st, g, r, spawn) ==
    LET s0 == getGame(st, g)
    IN  IF ~HasRoom(s0.games[g].activeRooms, r) THEN s0
        ELSE endGame(Touch(s0, g, r), g, GetRoom(s0.games[g].activeRooms, r), spawn)

forceLeaveGame(st, s, g, r, spawn) ==
    LET s0 == getGame(st, g)
        inActive == HasRoom(s0.games[g].activeRooms, r)
        inLobby == HasRoom(s0.games[g].rooms, r)
    IN  IF ~inActive /\ ~inLobby THEN s0
        ELSE LET room == IF inActive THEN GetRoom(s0.games[g].activeRooms, r)
                         ELSE GetRoom(s0.games[g].rooms, r)
                 \* playersMap.get(socket.id) after the delete finds nothing,
                 \* so the spatial index keeps the entry
                 r1 == IF room.engine = "arena"
                       THEN [room EXCEPT !.playersMap = @ \ {s},
                                         !.alivePlayers = @ \ {s}]
                       ELSE room
                 rm == RemovePlayer(r1, s)
                 t == Touch(s0, g, r)
                 s1 == IF inActive THEN SetActive(t, g, rm) ELSE SetLobby(t, g, rm)
             IN  IF Len(rm.players) # 0 THEN s1
                 ELSE IF inActive
                 THEN LET s2 == endGame(s1, g, rm, spawn)
                      IN  IF s2.err THEN s2 ELSE broadcastRooms(s2, g)
                 ELSE broadcastRooms(
                        ensureSingleEmptyRoom(DeleteLobbyRoom(s1, g, r), g), g)

RECURSIVE DisconnectLobby(_, _, _, _)
\* The loop over Object.entries(game.rooms) of the disconnect handler.
DisconnectLobby(st, s, g, ids) ==
    IF ids = <<>> THEN st
    ELSE LET r == Head(ids)
             rooms == st.games[g].rooms
         IN  IF ~HasRoom(rooms, r) \/ ~HasPlayer(GetRoom(rooms, r), s)
             THEN DisconnectLobby(st, s, g, Tail(ids))
             ELSE LET rm == RemovePlayer(GetRoom(rooms, r), s)
                      s1 == SetLobby(Touch(st, g, r), g, rm)
                      emptyRooms == SelectSeq(s1.games[g].rooms, IsEmptyRoom)
                      s2 == IF RoomIsSpare(rm, emptyRooms)
                            THEN ensureSingleEmptyRoom(DeleteLobbyRoom(s1, g, r), g)
                            ELSE s1
                  IN  DisconnectLobby(broadcastRooms(s2, g), s, g, Tail(ids))

RECURSIVE DisconnectActive(_, _, _, _, _)
\* The loop over Object.entries(game.activeRooms) of the disconnect handler.
DisconnectActive(st, s, g, ids, spawn) ==
    IF ids = <<>> \/ st.err THEN st
    ELSE LET r == Head(ids)
             rooms == st.games[g].activeRooms
         IN  IF ~HasRoom(rooms, r) \/ ~HasPlayer(GetRoom(rooms, r), s)
             THEN DisconnectActive(st, s, g, Tail(ids), spawn)
             ELSE LET room == GetRoom(rooms, r)
                      isArena == room.engine = "arena"
                      r1 == IF isArena
                            THEN [room EXCEPT
                                    !.playersMap = @ \ {s},
                                    !.alivePlayers = @ \ {s},
                                    !.playerSpatialIndex = IndexRemove(@, s)]
                            ELSE room
                      rm == RemovePlayer(r1, s)
                      s1 == SetActive(Touch(st, g, r), g, rm)
                      s2 == IF isArena /\ Cardinality(rm.alivePlayers) <= 1
                            THEN endGame(s1, g, rm, spawn)
                            ELSE s1
                      s3 == IF ~s2.err /\ Len(rm.players) = 0
                                 /\ HasRoom(s2.games[g].activeRooms, r)
                            THEN endGame(s2, g, rm, spawn)
                            ELSE s2
                  IN  DisconnectActive(s3, s, g, Tail(ids), spawn)

\* Object.entries(games): integer-like keys first, then the others in
\* insertion order ("NaN" can only be created after "undefined").
GameOrder == <<"1", "2", UNDEF, NAN>>

RECURSIVE DisconnectGames(_, _, _, _)
DisconnectGames(st, s, k, spawn) ==
    IF k > Len(GameOrder) \/ st.err THEN st
    ELSE LET g == GameOrder[k]
         IN  IF ~st.games[g].exists THEN DisconnectGames(st, s, k + 1, spawn)
             ELSE LET s1 == DisconnectLobby(st, s, g, RoomIdsOf(st.games[g].rooms))
                      s2 == DisconnectActive(s1, s, g,
                                             RoomIdsOf(s1.games[g].activeRooms), spawn)
                  IN  DisconnectGames(s2, s, k + 1, spawn)

disconnect(st, s, spawn) == DisconnectGames(st, s, 1, spawn)

\* io.on("connection"): every existing game gets the io reference, and
\* updateRoomCountForSingleUser(Number(gameId), ...) calls getGame.
connection(st) ==
    LET keys == {g \in GameKeys : st.games[g].exists}
        nan == \E g \in keys : g \notin GameIds
    IN  [st EXCEPT !.games =
            [g \in GameKeys |->
                IF g \in keys THEN [@[g] EXCEPT !.io = TRUE]
                ELSE IF g = NAN /\ nan THEN [@[g] EXCEPT !.exists = TRUE]
                ELSE @[g]]]

joinGameChannel(st, g) ==
    IF ~st.games[g].exists THEN st
    ELSE [st EXCEPT !.games[g].io = TRUE, !.games[g].id = TRUE]

---------------------------------------------------------------------------
(* The state machine *)

\* The room ids a client may name: every room of the game, and an absent one.
RoomInputs(g) ==
    {games[g].rooms[i].id : i \in DOMAIN games[g].rooms}
       \cup {games[g].activeRooms[i].id : i \in DOMAIN games[g].activeRooms}
       \cup {AbsentRoom}

\* The heap of a freshly started server: no game type has an entry yet.
Heap0 ==
    [games |-> [g \in GameKeys |-> NewGame],
     registry |-> [g \in GameKeys |-> NewGame],
     timers |-> <<>>,
     nextId |-> [g \in GameKeys |-> 0],
     hist |-> [g \in GameKeys |-> [r \in RoomIds |-> NewHist]],
     ev |-> <<>>, err |-> FALSE, blocked |-> FALSE, room |-> NewRoom(AbsentRoom)]

StartFrom(st) ==
    /\ games = st.games
    /\ registry = st.registry
    /\ timers = st.timers
    /\ nextId = st.nextId
    /\ hist = st.hist
    /\ crashed = FALSE

InitHeap == StartFrom(Heap0)

\* The third connection has come and gone before any game existed.
Init ==
    /\ InitHeap
    /\ sock = [s \in Sockets |-> IF s = "s3" THEN "closed" ELSE "new"]
    /\ budget = MaxEvents

\* A handler ran to its end (or to the exception that escaped it).
Commit(st) ==
    /\ ~st.blocked
    /\ games' = st.games
    /\ registry' = st.registry
    /\ timers' = st.timers
    /\ nextId' = st.nextId
    /\ hist' = st.hist
    /\ crashed' = st.err

\* A client event is delivered.
Client ==
    /\ ~crashed
    /\ budget > 0
    /\ budget' = budget - 1

Open(s) == sock[s] = "open"

AnyOpen == \E s \in Sockets : sock[s] = "open"

Connect(s) ==
    /\ Client /\ sock[s] = "new"
    /\ sock' = [sock EXCEPT ![s] = "open"]
    /\ Commit(connection(Cur))

RequestRooms(g) ==
    /\ Client /\ AnyOpen
    /\ UNCHANGED sock
    /\ Commit(requestRooms(Cur, g))

JoinRoom(s, g, r) ==
    /\ Client /\ Open(s)
    /\ UNCHANGED sock
    /\ Commit(joinRoom(Cur, s, g, r))

LeaveRoom(s, g, r) ==
    /\ Client /\ Open(s)
    /\ UNCHANGED sock
    /\ Commit(leaveRoom(Cur, s, g, r))

ToggleReady(s, g, r, b) ==
    /\ Client /\ Open(s)
    /\ UNCHANGED sock
    /\ Commit(toggleReady(Cur, s, g, r, b))

CountdownTick ==
    /\ ~crashed
    /\ timers # <<>>
    /\ UNCHANGED <<sock, budget>>
    /\ IF Head(timers).countdown # 1
       THEN Commit(countdownTick(Cur, rankOrder, CHOOSE f \in Spawns : TRUE))
       ELSE IF Head(timers).g = "1"
       THEN \E deck \in Decks :
               Commit(countdownTick(Cur, deck, CHOOSE f \in Spawns : TRUE))
       ELSE \E spawn \in Spawns : Commit(countdownTick(Cur, rankOrder, spawn))

RequestGameState(g, r) ==
    /\ Client /\ AnyOpen
    /\ UNCHANGED sock
    /\ Commit(requestGameState(Cur, g, r))

EndGame(g, r) ==
    /\ Client /\ AnyOpen
    /\ UNCHANGED sock
    /\ \E spawn \in Spawns : Commit(endGameHandler(Cur, g, r, spawn))

ForceLeaveGame(s, g, r) ==
    /\ Client /\ Open(s)
    /\ UNCHANGED sock
    /\ \E spawn \in Spawns : Commit(forceLeaveGame(Cur, s, g, r, spawn))

Disconnect(s) ==
    /\ Client /\ Open(s)
    /\ sock' = [sock EXCEPT ![s] = "closed"]
    /\ \E spawn \in Spawns : Commit(disconnect(Cur, s, spawn))

JoinGameChannel(g) ==
    /\ Client /\ AnyOpen
    /\ UNCHANGED sock
    /\ Commit(joinGameChannel(Cur, g))

PlayCard(s, g, r, card) ==
    /\ Client /\ Open(s)
    /\ UNCHANGED sock
    /\ Commit(handlePlayCard(Cur, s, g, r, card))

PlayerMove(s, g, r, direction) ==
    /\ Client /\ Open(s)
    /\ UNCHANGED sock
    /\ Commit(handlePlayerMove(Cur, s, g, r, direction))

Shoot(s, g, r, bulletType, direction) ==
    /\ Client /\ Open(s)
    /\ UNCHANGED sock
    /\ Commit(handleShootBullet(Cur, s, g, r, bulletType, direction))

\* The bullet interval of a running arena room fires.
ArenaTick(g, r) ==
    /\ ~crashed
    /\ HasRoom(games[g].activeRooms, r)
    /\ GetRoom(games[g].activeRooms, r).bulletInterval
    /\ UNCHANGED <<sock, budget>>
    /\ \E spawn \in Spawns : Commit(arenaTick(Cur, g, r, spawn))

\* The rooms a play, a move or a shot can act on.
PlayInputs(g) == {games[g].activeRooms[i].id : i \in DOMAIN games[g].activeRooms}
                    \cup {AbsentRoom}

Gameplay ==
    \/ \E s \in Sockets, g \in GameIds, card \in CardInputs :
          \E r \in PlayInputs(g) : PlayCard(s, g, r, card)
    \/ \E s \in Sockets, g \in GameIds, direction \in MoveInputs :
          \E r \in PlayInputs(g) : PlayerMove(s, g, r, direction)
    \/ \E s \in Sockets, g \in GameIds, bulletType \in BulletTypes, direction \in DirInputs :
          \E r \in PlayInputs(g) : Shoot(s, g, r, bulletType, direction)
    \/ \E g \in GameIds, r \in RoomIds : ArenaTick(g, r)

Next ==
    \/ Gameplay
    \/ \E s \in Sockets : Connect(s)
    \/ \E g \in GameIds : RequestRooms(g)
    \/ \E s \in Sockets, g \in GameIds : \E r \in RoomInputs(g) : JoinRoom(s, g, r)
    \/ \E s \in Sockets, g \in GameIds : \E r \in RoomInputs(g) : LeaveRoom(s, g, r)
    \/ \E s \in Sockets, g \in GameIds, b \in BOOLEAN :
          \E r \in RoomInputs(g) : ToggleReady(s, g, r, b)
    \/ CountdownTick
    \/ \E g \in GameIds : \E r \in RoomInputs(g) : RequestGameState(g, r)
    \/ \E g \in GameIds : \E r \in RoomInputs(g) : EndGame(g, r)
    \/ \E s \in Sockets, g \in GameIds : \E r \in RoomInputs(g) : ForceLeaveGame(s, g, r)
    \/ \E s \in Sockets : Disconnect(s)
    \/ \E g \in GameIds : JoinGameChannel(g)

Spec == Init /\ [][Next]_vars

---------------------------------------------------------------------------
(* A match with every seat of the exploration taken *)

MaxPlays == 3

RECURSIVE Ticks(_, _, _, _)
\* n callbacks of the countdown interval in a row; a callback that throws
\* ends the process.
Ticks(st, n, deck, spawn) ==
    IF st.err \/ n = 0 THEN st
    ELSE Ticks(countdownTick(st, deck, spawn), n - 1, deck, spawn)

\* The connections that take a seat in the matches explored.
Seatings == { <<"s1", "s2">>, <<"s1", "s2", "s3">> }

RECURSIVE JoinAll(_, _, _)
JoinAll(st, g, seats) ==
    IF st.err \/ seats = <<>> THEN st
    ELSE JoinAll(joinRoom(st, Head(seats), g, 1), g, Tail(seats))

RECURSIVE ReadyAll(_, _, _)
ReadyAll(st, g, seats) ==
    IF st.err \/ seats = <<>> THEN st
    ELSE ReadyAll(toggleReady(st, Head(seats), g, 1, TRUE), g, Tail(seats))

\* The run that seats the connections of `seats` in room 1 of game g and
\* starts the match: the three connections open (before or after the game
\* entry exists, which decides whether game.io is set), the lobby is
\* requested, the seated ones join and get ready, and the countdown runs down.
MatchStarted(g, seats, early, channel, deck, spawn) ==
    LET c1 == connection(Heap0)
        a1 == IF early THEN connection(connection(c1)) ELSE c1
        a2 == requestRooms(a1, g)
        a3 == IF early THEN a2 ELSE connection(connection(a2))
        a4 == IF channel THEN joinGameChannel(a3, g) ELSE a3
    IN  Ticks(ReadyAll(JoinAll(a4, g, seats), g, seats), COUNTDOWN, deck, spawn)

InitMatch ==
    /\ \E g \in GameIds, seats \in Seatings, early \in BOOLEAN, channel \in BOOLEAN :
          \E deck \in Decks, spawn \in Spawns :
             /\ g = "1" => spawn = (CHOOSE f \in Spawns : TRUE)
             /\ g = "2" => deck = rankOrder
             /\ StartFrom(MatchStarted(g, seats, early, channel, deck, spawn))
    /\ sock = [s \in Sockets |-> "open"]
    /\ budget = MaxPlays

\* What can happen to a running match: plays, moves, shots, bullet ticks,
\* players leaving, an explicit endGame, a late joinGameChannel.
NextMatch ==
    \/ Gameplay
    \/ \E g \in GameIds : \E r \in PlayInputs(g) : EndGame(g, r)
    \/ \E s \in Sockets, g \in GameIds : \E r \in PlayInputs(g) : ForceLeaveGame(s, g, r)
    \/ \E s \in Sockets : Disconnect(s)
    \/ \E g \in GameIds : JoinGameChannel(g)

SpecMatch == InitMatch /\ [][NextMatch]_vars

---------------------------------------------------------------------------
(* The lobby: one spare empty room (spec I1, P1) *)

InLobby(g, r) == HasRoom(games[g].rooms, r)

InActive(g, r) == HasRoom(games[g].activeRooms, r)

\* The number of lobby rooms without players in the games object gs.
EmptyRooms(gs, g) == Len(SelectSeq(gs[g].rooms, IsEmptyRoom))

\* requestRooms has completed for the game type: no other handler creates
\* the first room of a game type.
Requested(g) == nextId[g] >= 1

\* A joinRoom or a leaveRoom for the game type was handled.
JoinOrLeave(g) ==
    \E s \in Sockets : \E r \in RoomInputs(g) :
        JoinRoom(s, g, r) \/ LeaveRoom(s, g, r)

\* C1 as stated: after every joinRoom or leaveRoom, from any connection and in
\* any order, the lobby of the game type holds exactly one room without
\* players.
C1_OneEmptyAfterJoinLeave_AsStated ==
    [][\A g \in GameIds : JoinOrLeave(g) => EmptyRooms(games', g) = 1]_vars

\* C1: once requestRooms has completed for the game type, after every joinRoom
\* or leaveRoom of that type the lobby holds exactly one room without players.
C1_OneEmptyAfterJoinLeave ==
    [][\A g \in GameIds :
          (Requested(g) /\ JoinOrLeave(g)) => EmptyRooms(games', g) = 1]_vars

\* A player sits in a lobby room that a join made necessary (the second room
\* of the type), after another room was deleted on becoming empty.
C1_Witness ==
    \E g \in GameIds :
        /\ Requested(g)
        /\ \E i \in DOMAIN games[g].rooms : Len(games[g].rooms[i].players) >= 1
        /\ \E r \in RoomIds : hist[g][r].tornDown
        /\ EmptyRooms(games, g) = 1

\* C2: once the first requestRooms of a game type has completed, the lobby of
\* the type holds exactly one room without players in every later state,
\* whatever toggleReady, countdown ticks, forceLeaveGame, endGame and
\* connection closes were handled.
C2_OneEmptyAlways ==
    \A g \in GameIds : Requested(g) => EmptyRooms(games, g) = 1

\* A room was moved to activeRooms by its countdown and a connection that had
\* opened is closed, with the lobby still holding its one empty room.
C2_Witness ==
    \E g \in GameIds :
        /\ \E r \in RoomIds : hist[g][r].moved = 1
        /\ \E s \in Sockets \ {"s3"} : sock[s] = "closed"
        /\ EmptyRooms(games, g) = 1

---------------------------------------------------------------------------
(* The countdown (spec I3, 4.2, scenario C) *)

\* C3 as stated: in the step that moves a room to activeRooms the room has at
\* least one seated player and every seated player is ready.
C3_AllReadyWhenMoved ==
    [][\A g \in GameIds, r \in RoomIds :
          hist'[g][r].moved > hist[g][r].moved =>
             /\ HasRoom(games'[g].activeRooms, r)
             /\ allPlayersReady(GetRoom(games'[g].activeRooms, r))]_vars

TimersOf(g, r) == {i \in DOMAIN timers : timers[i].g = g /\ timers[i].room = r}

\* C4 as stated: at most one countdown interval is live for a room, and no
\* secondsRemaining value is emitted twice for a room.
C4_OneTimerPerRoom ==
    \A g \in GameIds, r \in RoomIds :
        /\ Cardinality(TimersOf(g, r)) <= 1
        /\ hist[g][r].cdCount = Cardinality(hist[g][r].cdSeen)

\* C5 as stated: once a lobby room has been deleted, no countdownUpdate and no
\* gameStart is emitted for its id any more.
C5_SilentAfterTearDown ==
    [][\A g \in GameIds, r \in RoomIds :
          hist[g][r].tornDown =>
             /\ hist'[g][r].cdCount = hist[g][r].cdCount
             /\ hist'[g][r].moved = hist[g][r].moved]_vars

\* The countdownUpdate and gameStart events among the emitted ones.
CountdownEvents(ev) ==
    SelectSeq(ev, LAMBDA e : e.type \in {"countdownUpdate", "gameStart"})

\* C6: a countdown that runs with no other event for its room has, before each
\* of its ticks, emitted the values from 9 down to the one before; each tick
\* emits exactly one countdownUpdate with the next lower value; the tick that
\* emits 0 (the tenth) also emits gameStart, ends the interval, and leaves the
\* room out of the lobby and in activeRooms with isActive set.
C6_UndisturbedCountdown ==
    /\ \A i \in DOMAIN timers :
          timers[i].clean =>
             LET t == timers[i]
                 h == hist[t.g][t.room]
             IN  /\ t.countdown \in 1..COUNTDOWN
                 /\ h.cdCount = COUNTDOWN - t.countdown
                 /\ h.cdSeen = t.countdown..(COUNTDOWN - 1)
                 /\ TimersOf(t.g, t.room) = {i}
    /\ (~crashed /\ timers # <<>> /\ Head(timers).clean) =>
          LET t == Head(timers)
              update == Event("countdownUpdate", t.g, t.room, t.countdown - 1, "")
          IN  \A deck \in Decks, spawn \in Spawns :
                 LET st == countdownTick(Cur, deck, spawn)
                     evs == CountdownEvents(st.ev)
                     left == {i \in DOMAIN st.timers :
                                 st.timers[i].g = t.g /\ st.timers[i].room = t.room}
                 IN  /\ ~st.err
                     /\ IF t.countdown > 1
                        THEN /\ evs = <<update>>
                             /\ Cardinality(left) = 1
                             /\ HasRoom(st.games[t.g].rooms, t.room)
                        ELSE /\ evs = <<update, Event("gameStart", t.g, t.room, 0, "")>>
                             /\ left = {}
                             /\ ~HasRoom(st.games[t.g].rooms, t.room)
                             /\ HasRoom(st.games[t.g].activeRooms, t.room)
                             /\ GetRoom(st.games[t.g].activeRooms, t.room).isActive

\* A countdown ran down undisturbed: ten events, the values 9..0, and the room
\* is in activeRooms.
C6_Witness ==
    \E g \in GameIds, r \in RoomIds :
        /\ hist[g][r].undisturbed
        /\ hist[g][r].cdCount = COUNTDOWN
        /\ hist[g][r].cdSeen = 0..(COUNTDOWN - 1)
        /\ InActive(g, r)
        /\ GetRoom(games[g].activeRooms, r).isActive

---------------------------------------------------------------------------
(* Lobby and active rooms (spec I3, I4) *)

\* C7: no room id is in the lobby and in activeRooms at once, and no room id
\* is moved to activeRooms more than once.
C7_MovedOnce ==
    \A g \in GameIds, r \in RoomIds :
        /\ ~(InLobby(g, r) /\ InActive(g, r))
        /\ hist[g][r].moved <= 1

\* Two countdowns were started for one room and both ran down; the room was
\* moved once.
C7_Witness ==
    \E g \in GameIds, r \in RoomIds :
        /\ hist[g][r].cdStarted >= 2
        /\ hist[g][r].cdCount = 2 * COUNTDOWN
        /\ hist[g][r].moved = 1

\* C8: a room that is in activeRooms is not in the lobby after the next step
\* and no countdown is started for it; a room an end routine removed from
\* activeRooms is in neither map after any later step.
C8_ActiveNeverBack ==
    [][\A g \in GameIds, r \in RoomIds :
          /\ InActive(g, r) =>
                /\ ~HasRoom(games'[g].rooms, r)
                /\ hist'[g][r].cdStarted = hist[g][r].cdStarted
          /\ hist[g][r].ended =>
                /\ ~HasRoom(games'[g].rooms, r)
                /\ ~HasRoom(games'[g].activeRooms, r)]_vars

\* A match was ended and a player sits in the lobby of the same game type
\* again, in another room.
C8_Witness ==
    \E g \in GameIds, r \in RoomIds :
        /\ hist[g][r].ended
        /\ ~InLobby(g, r) /\ ~InActive(g, r)
        /\ \E i \in DOMAIN games[g].rooms : Len(games[g].rooms[i].players) >= 1

---------------------------------------------------------------------------
(* Ending a match (spec P5, P3) *)

\* The end routine of the room's engine, called directly.
EndRoutine(st, g, room, spawn) ==
    IF room.engine = "arena" THEN endAgarIoRoom(st, g, room, FALSE, spawn)
    ELSE endBiggestTomatoRoom(st, g, room)

Terminal(ev) == Len(SelectSeq(ev, LAMBDA e : e.type = "gameEnded"))

\* C9 as stated: for every running match, calling its end routine twice in a
\* row raises no error, emits the match-ended event at most once in total,
\* and the second call leaves the games objects, the timers and the room
\* object as the first call left them.
C9_EndTwice ==
    ~crashed =>
       \A g \in GameIds : \A i \in DOMAIN games[g].activeRooms :
          \A spawn1 \in Spawns, spawn2 \in Spawns :
             LET room == games[g].activeRooms[i]
                 a == EndRoutine(Cur, g, room, spawn1)
                 b == EndRoutine([a EXCEPT !.ev = <<>>], g, a.room, spawn2)
             IN  /\ ~a.err
                 /\ ~b.err
                 /\ Terminal(a.ev) + Terminal(b.ev) <= 1
                 /\ b.games = a.games
                 /\ b.registry = a.registry
                 /\ b.timers = a.timers
                 /\ b.room = a.room

\* The player s of the room is marked eliminated.
Eliminated(room, s) == HasPlayer(room, s) /\ room.obj[s].isDead

\* C10: a player who is marked eliminated in a room of activeRooms, and who
\* still has a seat in it after the next step with the room still in
\* activeRooms, is still marked eliminated and is not in the alive set.
C10_EliminatedStays ==
    [][\A g \in GameIds, r \in RoomIds, s \in Sockets :
          (/\ InActive(g, r)
           /\ Eliminated(GetRoom(games[g].activeRooms, r), s)
           /\ HasRoom(games'[g].activeRooms, r)
           /\ HasPlayer(GetRoom(games'[g].activeRooms, r), s))
          => /\ GetRoom(games'[g].activeRooms, r).obj[s].isDead
             /\ s \notin GetRoom(games'[g].activeRooms, r).alivePlayers]_vars

\* A card match of three: the second player lost on the second card, a third
\* card was played after that, and the match goes on with the loser seated.
C10_Witness ==
    \E g \in GameIds, r \in RoomIds :
        /\ InActive(g, r)
        /\ LET room == GetRoom(games[g].activeRooms, r)
           IN  /\ room.players = <<"s1", "s2", "s3">>
               /\ room.obj["s2"].isDead
               /\ Len(room.playedCards) >= 3

---------------------------------------------------------------------------
(* The bullets of the Agar.io clone (spec P4) *)

InWorld(p) == p.x >= 0 /\ p.x <= WORLD_WIDTH /\ p.y >= 0 /\ p.y <= WORLD_HEIGHT

\* The bullet interval of room r of game g is running.
Ticking(g, r) == InActive(g, r) /\ GetRoom(games[g].activeRooms, r).bulletInterval

BulletIds(bullets) == {bullets[i].id : i \in DOMAIN bullets}

---------------------------------------------------------------------------
(* The plays of Biggest Tomato (spec 5.1) *)

\* Room r of game g is a running card match.
DuelRunning(g, r) == InActive(g, r) /\ GetRoom(games[g].activeRooms, r).engine = "duel"

\* The sender passes the turn and elimination tests of handlePlayCard.
Accepted(room, s) ==
    s = room.currentPlayerSocketId /\ HasPlayer(room, s) /\ ~room.obj[s].isDead

\* The room object as a handler left it, in activeRooms or detached.
PostRoom(st, g, r) ==
    IF HasRoom(st.games[g].activeRooms, r) THEN GetRoom(st.games[g].activeRooms, r)
    ELSE st.room

\* The cards a playCard of connection s is tried with: the payloads of the
\* exploration and every card the sender holds.
Playable(g, r, s) ==
    CardInputs \cup (IF InActive(g, r)
                     THEN SeqToSet(GetRoom(games[g].activeRooms, r).obj[s].cards)
                     ELSE {})

\* The players of the room who are not eliminated.
Alive(room) == {p \in SeqToSet(room.players) : ~room.obj[p].isDead}

\* Position of a card in the rank order, -1 for anything that is no rank.
Rank(card) == IndexOf(rankOrder, card)

\* C12 as stated: a playCard by a sender who is not the current-turn player,
\* or is eliminated, or does not hold the named card, leaves the games
\* unchanged and emits nothing.
C12_RejectedPlayIsNoOp ==
    ~crashed =>
       \A g \in GameIds, r \in RoomIds, s \in Sockets :
        \A card \in Playable(g, r, s) :
          DuelRunning(g, r) =>
             LET theRoom == GetRoom(games[g].activeRooms, r)
                 out == handlePlayCard(Cur, s, g, r, card)
             IN  (\/ s # theRoom.currentPlayerSocketId
                  \/ ~HasPlayer(theRoom, s)
                  \/ theRoom.obj[s].isDead
                  \/ card \notin SeqToSet(theRoom.obj[s].cards))
                 => out.games = games /\ out.ev = <<>>

NextSeat(room, k) ==
    LET n == Len(room.players)
        live(d) == ~room.obj[room.players[((k + d) % n) + 1]].isDead
        first == CHOOSE i \in 1..n : live(i) /\ \A h \in 1..(i - 1) : ~live(h)
    IN  (k + first) % n

\* C14 as stated: after an accepted play that does not end the match, the turn
\* is with the first non-eliminated player after the sender in seating order,
\* and currentPlayerIndex and currentPlayerSocketId both name that player.
C14_TurnAdvances ==
    ~crashed =>
       \A g \in GameIds, r \in RoomIds, s \in Sockets :
        \A card \in Playable(g, r, s) :
          (DuelRunning(g, r) /\ Accepted(GetRoom(games[g].activeRooms, r), s)) =>
             LET out == handlePlayCard(Cur, s, g, r, card)
             IN  HasRoom(out.games[g].activeRooms, r) =>
                    LET after == GetRoom(out.games[g].activeRooms, r)
                        seat == FindIndex(after.players, LAMBDA p : p = s) - 1
                        turn == NextSeat(after, seat)
                    IN  /\ after.currentPlayerIndex = turn
                        /\ after.currentPlayerSocketId = after.players[turn + 1]

\* C15: an accepted play that leaves at most one player not eliminated ends
\* the match in the same step: the winner is the lone survivor (null without
\* one), gameOver with that winner is emitted to the room, and the room is in
\* neither activeRooms nor the lobby; in a match of two, the second seat
\* answering the first card with a rank that is not above it makes the first
\* seat the winner.
C15_MatchEnds ==
    ~crashed =>
       \A g \in GameIds, r \in RoomIds, s \in Sockets :
        \A card \in Playable(g, r, s) :
          (DuelRunning(g, r) /\ Accepted(GetRoom(games[g].activeRooms, r), s)) =>
             LET theRoom == GetRoom(games[g].activeRooms, r)
                 out == handlePlayCard(Cur, s, g, r, card)
                 after == PostRoom(out, g, r)
             IN  /\ Cardinality(Alive(after)) <= 1 =>
                       /\ \A p \in Alive(after) : after.winner = p
                       /\ Alive(after) = {} => after.winner = "null"
                       /\ \E i \in DOMAIN out.ev :
                             /\ out.ev[i].type = "gameOver"
                             /\ out.ev[i].g = g /\ out.ev[i].room = r
                             /\ out.ev[i].who = after.winner
                       /\ ~HasRoom(out.games[g].activeRooms, r)
                       /\ ~HasRoom(out.games[g].rooms, r)
                 /\ (/\ Len(theRoom.players) = 2
                     /\ Alive(theRoom) = SeqToSet(theRoom.players)
                     /\ Len(theRoom.playedCards) = 1
                     /\ s = theRoom.players[2]
                     /\ Rank(card) <= Rank(theRoom.playedCards[1]))
                    => /\ after.winner = theRoom.players[1]
                       /\ ~HasRoom(out.games[g].activeRooms, r)

\* The second seat of a match of two answers the first card with a rank that
\* is not above it, and the play ends the match for the first seat.
C15_Witness ==
    \E g \in GameIds, r \in RoomIds :
        /\ DuelRunning(g, r)
        /\ budget > 0
        /\ LET theRoom == GetRoom(games[g].activeRooms, r)
           IN  /\ Len(theRoom.players) = 2
               /\ Len(theRoom.playedCards) = 1
               /\ Accepted(theRoom, theRoom.players[2])
               /\ sock[theRoom.players[2]] = "open"
               /\ \E card \in SeqToSet(theRoom.obj[theRoom.players[2]].cards) :
                     LET out == handlePlayCard(Cur, theRoom.players[2], g, r, card)
                     IN  /\ ~HasRoom(out.games[g].activeRooms, r)
                         /\ out.room.winner = theRoom.players[1]
                         /\ Event("gameOver", g, r, 0, theRoom.players[1]) \in SeqToSet(out.ev)

\* C16 as stated: a state broadcast sent with n cards played shows the
\* (n-1)-th card as lastPlayedCard (null when n < 2) and the first n-2 cards
\* as playedCardHistory, and the card played last is in neither field.
C16_LastCardHidden ==
    ~crashed =>
       \A g \in GameIds, r \in RoomIds, s \in Sockets :
        \A card \in Playable(g, r, s) :
          DuelRunning(g, r) =>
             LET out == handlePlayCard(Cur, s, g, r, card)
                 history == PostRoom(out, g, r).playedCards
                 count == Len(history)
             IN  \A i \in DOMAIN out.ev :
                    out.ev[i].type = "gameStateUpdate" =>
                       /\ out.ev[i].lastPlayedCard =
                             (IF count >= 2 THEN history[count - 1] ELSE "null")
                       /\ out.ev[i].playedCardHistory =
                             (IF count > 2 THEN SubSeq(history, 1, count - 2) ELSE <<>>)
                       /\ count >= 1 =>
                             /\ history[count] # out.ev[i].lastPlayedCard
                             /\ history[count] \notin SeqToSet(out.ev[i].playedCardHistory)

\* C17: right after the start of a card match every dealt card is a rank of
\* the deck and no rank is dealt twice; with at most two players every player
\* holds five cards and is not eliminated, the turn is with seat 0, no card
\* has been played and there is no winner.
C17_Deal ==
    (~crashed /\ budget = MaxPlays) =>
       \A g \in GameIds, r \in RoomIds :
          DuelRunning(g, r) =>
             LET theRoom == GetRoom(games[g].activeRooms, r)
                 ps == SeqToSet(theRoom.players)
                 held(p) == SeqToSet(theRoom.obj[p].cards)
             IN  /\ \A p \in ps :
                       /\ held(p) \subseteq SeqToSet(rankOrder)
                       /\ Cardinality(held(p)) = Len(theRoom.obj[p].cards)
                 /\ \A p, q \in ps : p # q => held(p) \cap held(q) = {}
                 /\ Len(theRoom.players) <= 2 =>
                       /\ \A p \in ps : Len(theRoom.obj[p].cards) = HAND_SIZE /\ ~theRoom.obj[p].isDead
                       /\ theRoom.currentPlayerIndex = 0
                       /\ theRoom.currentPlayerSocketId = theRoom.players[1]
                       /\ theRoom.playedCards = <<>>
                       /\ theRoom.winner = "null"

\* A card match of two has just started from a shuffled deck.
C17_Witness ==
    /\ budget = MaxPlays
    /\ \E g \in GameIds, r \in RoomIds :
          /\ DuelRunning(g, r)
          /\ LET theRoom == GetRoom(games[g].activeRooms, r)
             IN  /\ Len(theRoom.players) = 2
                 /\ theRoom.obj[theRoom.players[1]].cards # SubSeq(rankOrder, 1, HAND_SIZE)

---------------------------------------------------------------------------
(* Hits, the end of an Agar.io match, and the world's edge *)

\* Room r of game g is a running Agar.io match.
ArenaRunning(g, r) == InActive(g, r) /\ GetRoom(games[g].activeRooms, r).engine = "arena"

\* The bullet passes the out-of-bounds and range tests of a tick.
InFlight(b) == InWorld(b) /\ (b.rangeLimit = INFINITY \/ b.traveled < b.rangeLimit)

Indexed(room) == {room.playerSpatialIndex[i].socketId : i \in DOMAIN room.playerSpatialIndex}

NewlyDead(pre, post) == {s \in Sockets : post.obj[s].isDead /\ ~pre.obj[s].isDead}

C19_TickEndsMatch ==
    ~crashed =>
       \A g \in GameIds, r \in RoomIds :
          Ticking(g, r) =>
             \A spawn \in Spawns :
                LET before == GetRoom(games[g].activeRooms, r)
                    survivors == UpdateBulletsFrom(before, Len(before.bullets)).alivePlayers
                    out == arenaTick(Cur, g, r, spawn)
                IN  /\ Cardinality(survivors) = 1 =>
                          /\ \A p \in survivors : out.room.winner = userName(p)
                          /\ ~HasRoom(out.games[g].activeRooms, r)
                          /\ ~out.room.bulletInterval
                          /\ out.hist[g][r].ended
                    /\ Cardinality(survivors) = 0 =>
                          /\ out.room.winner = "null"
                          /\ ~HasRoom(out.games[g].activeRooms, r)
                          /\ ~out.room.bulletInterval
                          /\ out.hist[g][r].ended
                    /\ Cardinality(survivors) >= 2 =>
                          /\ HasRoom(out.games[g].activeRooms, r)
                          /\ GetRoom(out.games[g].activeRooms, r).winner = "null"
                          /\ GetRoom(out.games[g].activeRooms, r).bulletInterval

\* A bullet of a match of two is one tick away from the other player, and the
\* tick ends the match for the shooter.
C19_Witness ==
    \E g \in GameIds, r \in RoomIds :
        /\ Ticking(g, r)
        /\ budget > 0
        /\ LET before == GetRoom(games[g].activeRooms, r)
           IN  /\ Cardinality(before.alivePlayers) = 2
               /\ \E spawn \in Spawns :
                     LET out == arenaTick(Cur, g, r, spawn)
                     IN  /\ ~out.err
                         /\ ~HasRoom(out.games[g].activeRooms, r)
                         /\ \E p \in before.alivePlayers : out.room.winner = userName(p)

\* The directions a playerMove can name, and one that is none of them.
Directions ==
    {"up-left", "up-right", "down-left", "down-right",
     "up", "down", "left", "right", "none"}

\* C20: every player of an Agar.io room is inside the world, a move in any
\* direction leaves the mover inside it, and a move by a connection that is
\* eliminated or is no player of the room changes nothing and emits nothing.
C20_PlayersInWorld ==
    ~crashed =>
       \A g \in GameIds, r \in RoomIds :
          LET theRoom == FindRoom(Cur, g, r)
          IN  (theRoom.id # AbsentRoom /\ theRoom.engine = "arena") =>
                 /\ \A s \in theRoom.playersMap : InWorld(theRoom.obj[s])
                 /\ \A s \in Sockets, direction \in Directions :
                       LET out == handlePlayerMove(Cur, s, g, r, direction)
                           after == FindRoom(out, g, r)
                       IN  /\ \A p \in after.playersMap : InWorld(after.obj[p])
                           /\ (s \notin theRoom.playersMap \/ theRoom.obj[s].isDead) =>
                                 /\ out.games = games
                                 /\ out.ev = <<>>

\* A player stands on the right edge of the world after moving right.
C20_Witness ==
    \E g \in GameIds, r \in RoomIds :
        /\ ArenaRunning(g, r)
        /\ LET theRoom == GetRoom(games[g].activeRooms, r)
           IN  \E s \in theRoom.playersMap :
                  /\ theRoom.obj[s].x = WORLD_WIDTH
                  /\ theRoom.obj[s].lastDx = STEP

---------------------------------------------------------------------------
(* Shots (spec 5.2) *)

\* The kinds and directions a shoot is tried with.
ShootKinds == BulletTypes \cup {"charged"}

ShootPayloads == DirInputs \cup {InfiniteDir}

Created(events) == {i \in DOMAIN events : events[i].type = "bulletCreated"}

\* C21 as stated: a shoot by an eliminated or unknown player, of an
\* unsupported kind, or with a direction that is missing, not numeric or not
\* finite changes neither the bullet list, the pool nor the id counter and
\* emits no bulletCreated; any other shoot appends one bullet of the shooter
\* at the shooter's position and emits one bulletCreated.
C21_ShootValidated ==
    ~crashed =>
       \A g \in GameIds, r \in RoomIds, s \in Sockets :
        \A kind \in ShootKinds, direction \in ShootPayloads :
          LET theRoom == FindRoom(Cur, g, r)
              out == handleShootBullet(Cur, s, g, r, kind, direction)
              after == FindRoom(out, g, r)
              dropped == \/ s \notin theRoom.playersMap
                         \/ theRoom.obj[s].isDead
                         \/ kind \notin {"charged", "fullyCharged"}
                         \/ ~direction.ok
                         \/ ~direction.finite
          IN  theRoom.id # AbsentRoom =>
                 IF dropped
                 THEN /\ Len(after.bullets) = Len(theRoom.bullets)
                      /\ Len(after.bulletPool) = Len(theRoom.bulletPool)
                      /\ after.bulletIdCounter = theRoom.bulletIdCounter
                      /\ Created(out.ev) = {}
                      /\ out.games = games
                 ELSE /\ Len(after.bullets) = Len(theRoom.bullets) + 1
                      /\ SubSeq(after.bullets, 1, Len(theRoom.bullets)) = theRoom.bullets
                      /\ after.bullets[Len(after.bullets)].ownerId = s
                      /\ after.bullets[Len(after.bullets)].x = theRoom.obj[s].x
                      /\ after.bullets[Len(after.bullets)].y = theRoom.obj[s].y
                      /\ Cardinality(Created(out.ev)) = 1

---------------------------------------------------------------------------
(* The end of an Agar.io match and players leaving it *)

\* What the operations that can end the match of room r leave behind: the
\* interval callback, endGame, and forceLeaveGame or disconnect of s.
EndingOutputs(g, r, spawn) ==
    {endGameHandler(Cur, g, r, spawn)}
       \cup {forceLeaveGame(Cur, s, g, r, spawn) : s \in Sockets}
       \cup {disconnect(Cur, s, spawn) : s \in Sockets}
       \cup (IF Ticking(g, r) THEN {arenaTick(Cur, g, r, spawn)} ELSE {})

\* Whatever takes a running Agar.io room out of activeRooms leaves the room
\* object with its interval cleared and no bullet in flight.
EndClearsRoom ==
    ~crashed =>
       \A g \in GameIds, r \in RoomIds :
          /\ hist[g][r].ended => ~InActive(g, r)
          /\ ArenaRunning(g, r) =>
                /\ GetRoom(games[g].activeRooms, r).bulletInterval
                /\ \A spawn \in Spawns :
                      \A out \in EndingOutputs(g, r, spawn) :
                         ~HasRoom(out.games[g].activeRooms, r) =>
                            /\ out.room.id = r
                            /\ ~out.room.bulletInterval
                            /\ out.room.bullets = <<>>
                            /\ out.hist[g][r].ended

\* One step of the server: a room that leaves activeRooms has ended, and a
\* room that has ended is not in activeRooms afterwards.
EndIsFinal ==
    \A g \in GameIds, r \in RoomIds :
       /\ InActive(g, r) /\ ~HasRoom(games'[g].activeRooms, r) => hist'[g][r].ended
       /\ hist[g][r].ended => ~HasRoom(games'[g].activeRooms, r)

\* C22: an operation that takes a running Agar.io room out of activeRooms
\* leaves the room object with its interval cleared and no bullet in flight,
\* and a room that has ended is in activeRooms no more, where alone an
\* interval callback finds it.
C22_EndStopsTicks == []EndClearsRoom /\ [][EndIsFinal]_vars

\* An endGame arrives while a bullet is in flight and recycles it.
C22_Witness ==
    \E g \in GameIds, r \in RoomIds :
        /\ ArenaRunning(g, r)
        /\ budget > 0
        /\ GetRoom(games[g].activeRooms, r).bullets # <<>>
        /\ \E spawn \in Spawns :
              LET out == endGameHandler(Cur, g, r, spawn)
              IN  /\ ~HasRoom(out.games[g].activeRooms, r)
                  /\ ~out.room.bulletInterval
                  /\ out.room.bullets = <<>>
                  /\ out.room.bulletPool # <<>>

Ended(events) == {i \in DOMAIN events : events[i].type = "gameEnded"}

\* C23 as stated: when disconnect or forceLeaveGame takes a player out of a
\* running Agar.io match and exactly one player is alive afterwards, that
\* player is recorded as the winner and gameEnded carries that winner.
C23_LeaveMakesWinner ==
    ~crashed =>
       \A g \in GameIds, r \in RoomIds, s \in Sockets, spawn \in Spawns :
          ArenaRunning(g, r) =>
             LET before == GetRoom(games[g].activeRooms, r)
                 survivors == before.alivePlayers \ {s}
             IN  (HasPlayer(before, s) /\ Cardinality(survivors) = 1) =>
                    \A out \in { disconnect(Cur, s, spawn),
                                 forceLeaveGame(Cur, s, g, r, spawn) } :
                       \A p \in survivors :
                          /\ out.room.winner = userName(p)
                          /\ \E i \in Ended(out.ev) : out.ev[i].who = userName(p)

---------------------------------------------------------------------------
(* Players leaving a Biggest Tomato match *)

\* C24 as stated: after a disconnect or forceLeaveGame of a seated player of
\* a running card match, with two or more players left not eliminated the
\* turn is with one of them, so that some seated player's play is accepted,
\* and with at most one left the match has ended with that player as winner.
C24_LeaveRotatesTurn ==
    ~crashed =>
       \A g \in GameIds, r \in RoomIds, s \in Sockets, spawn \in Spawns :
          (DuelRunning(g, r) /\ HasPlayer(GetRoom(games[g].activeRooms, r), s)) =>
             \A out \in { disconnect(Cur, s, spawn),
                          forceLeaveGame(Cur, s, g, r, spawn) } :
                LET after == PostRoom(out, g, r)
                IN  IF Cardinality(Alive(after)) >= 2
                    THEN /\ after.currentPlayerSocketId \in Alive(after)
                         /\ \E p \in SeqToSet(after.players) : Accepted(after, p)
                    ELSE /\ ~HasRoom(out.games[g].activeRooms, r)
                         /\ \A p \in Alive(after) : after.winner = p

---------------------------------------------------------------------------
(* Connections closing (spec 4.6) *)

\* The rooms, lobby or active, of the games object gs that seat connection s.
SeatsOf(gs, s) ==
    {<<g, r, active>> \in GameKeys \X RoomIds \X BOOLEAN :
        LET rooms == IF active THEN gs[g].activeRooms ELSE gs[g].rooms
        IN  HasRoom(rooms, r) /\ HasPlayer(GetRoom(rooms, r), s)}

\* The heap a handler left, as the next handler finds it.
Settled(st) == [st EXCEPT !.ev = <<>>, !.room = NewRoom(AbsentRoom)]

MatchEnded(events) ==
    {i \in DOMAIN events : events[i].type \in {"gameEnded", "gameOver"}}

\* C25: after the disconnect handler of a connection has run to its end the
\* connection is seated in no lobby room and no active room of any game type,
\* and the handler run once more for the same connection changes no game and
\* emits no match-ended event.
C25_DisconnectClears ==
    ~crashed =>
       \A s \in Sockets :
          sock[s] = "open" =>
             \A spawn \in Spawns :
                LET out == disconnect(Cur, s, spawn)
                IN  ~out.err =>
                       /\ SeatsOf(out.games, s) = {}
                       /\ LET twice == disconnect(Settled(out), s, spawn)
                          IN  /\ ~twice.err
                              /\ twice.games = out.games
                              /\ MatchEnded(twice.ev) = {}

\* A connection seated in two rooms closes, and the handler clears both seats.
C25_Witness ==
    \E s \in Sockets :
        /\ sock[s] = "open"
        /\ budget > 0
        /\ Cardinality(SeatsOf(games, s)) >= 2
        /\ \E spawn \in Spawns :
              LET out == disconnect(Cur, s, spawn)
              IN  ~out.err /\ SeatsOf(out.games, s) = {}

\* Connection s is the only player of lobby room r of game g.
SoleOccupant(g, r, s) ==
    InLobby(g, r) /\ GetRoom(games[g].rooms, r).players = <<s>>

\* Another lobby room of game g has no player.
OtherEmpty(g, r) ==
    \E i \in DOMAIN games[g].rooms :
        games[g].rooms[i].id # r /\ IsEmptyRoom(games[g].rooms[i])

\* C26: when leaveRoom or disconnect takes the only player out of a lobby
\* room, the room is deleted exactly when another lobby room of the game type
\* has no player; otherwise it stays, with no player, as the one empty room.
C26_SoleOccupantLeaves ==
    ~crashed =>
       \A g \in GameIds : \A i \in DOMAIN games[g].rooms :
          LET leaver == games[g].rooms[i].players
              vacated == games[g].rooms[i].id
          IN  Len(leaver) = 1 /\ sock[leaver[1]] = "open" =>
                 \A out \in {leaveRoom(Cur, leaver[1], g, vacated)} \cup
                            {disconnect(Cur, leaver[1], spawn) : spawn \in Spawns} :
                    ~out.err =>
                       /\ ~HasRoom(out.games[g].rooms, vacated) <=> OtherEmpty(g, vacated)
                       /\ HasRoom(out.games[g].rooms, vacated) =>
                             /\ GetRoom(out.games[g].rooms, vacated).players = <<>>
                             /\ EmptyRooms(out.games, g) = 1

C26_Witness ==
    \E g \in GameIds, r \in RoomIds, s \in Sockets, spawn \in Spawns :
        /\ budget > 0 /\ ~crashed /\ sock[s] = "open"
        /\ SoleOccupant(g, r, s) /\ OtherEmpty(g, r)
        /\ ~HasRoom(leaveRoom(Cur, s, g, r).games[g].rooms, r)
        /\ LET out == disconnect(Cur, s, spawn)
           IN  ~out.err /\ ~HasRoom(out.games[g].rooms, r)
                        /\ EmptyRooms(out.games, g) = 1

---------------------------------------------------------------------------
\* Joining (spec 4.2)

\* No connection id occurs twice in the player sequence.
Distinct(players) ==
    \A i, j \in DOMAIN players : players[i] = players[j] => i = j

\* Every room of every game type, waiting or running.
EveryRoom(gs) ==
    UNION {{gs[g].rooms[i] : i \in DOMAIN gs[g].rooms} \cup
           {gs[g].activeRooms[i] : i \in DOMAIN gs[g].activeRooms} :
           g \in GameKeys}

\* C27: no room seats the same connection twice; joinRoom by a connection
\* already seated in the room leaves the room's players and their isReady
\* flags as they were, and joinRoom naming an absent room changes no room.
C27_NoDoubleSeat ==
    /\ \A theRoom \in EveryRoom(games) : Distinct(theRoom.players)
    /\ ~crashed =>
          \A s \in Sockets :
             sock[s] = "open" =>
                \A g \in GameKeys : \A r \in RoomInputs(g) :
                   LET out == joinRoom(Cur, s, g, r)
                       seated == /\ HasRoom(games[g].rooms, r)
                                 /\ HasPlayer(GetRoom(games[g].rooms, r), s)
                   IN  /\ ~out.err
                       /\ HasRoom(out.games[g].rooms, r) =>
                             Distinct(GetRoom(out.games[g].rooms, r).players)
                       /\ seated => out.games = games
                       /\ ~HasRoom(games[g].rooms, r) =>
                             \A k \in GameKeys :
                                /\ out.games[k].rooms = games[k].rooms
                                /\ out.games[k].activeRooms = games[k].activeRooms

C27_Witness ==
    \E s \in Sockets, g \in GameIds, r \in RoomIds :
        /\ budget > 0 /\ ~crashed /\ sock[s] = "open"
        /\ InLobby(g, r) /\ HasPlayer(GetRoom(games[g].rooms, r), s)
        /\ GetRoom(games[g].rooms, r).obj[s].isReady
        /\ GetRoom(joinRoom(Cur, s, g, r).games[g].rooms, r) = GetRoom(games[g].rooms, r)
        /\ \E absent \in RoomIds :
              /\ ~InLobby(g, absent)
              /\ joinRoom(Cur, s, g, absent).games = games

---------------------------------------------------------------------------
\* Lobby rooms that hold players (spec 4.1)

\* What the operations that take a player or a room out of the lobby return
\* when connection s runs them against room r of game g.
RemovingOutputs(g, r, s, spawn) ==
    { leaveRoom(Cur, s, g, r),
      forceLeaveGame(Cur, s, g, r, spawn),
      disconnect(Cur, s, spawn) }

\* The room still has a player once connection s is taken out of it.
OthersSeated(room, s) == \E i \in DOMAIN room.players : room.players[i] # s

\* The lobby rooms of every game type that have a player besides s.
OccupiedBeside(gs, s) ==
    {<<g, r>> \in GameIds \X RoomIds :
        HasRoom(gs[g].rooms, r) /\ OthersSeated(GetRoom(gs[g].rooms, r), s)}

\* The lobby rooms of every game type that have a player.
Occupied(gs) ==
    {<<g, r>> \in GameIds \X RoomIds :
        HasRoom(gs[g].rooms, r) /\ GetRoom(gs[g].rooms, r).players # <<>>}

\* Each of the rooms is still in the lobby with a player besides s.
StillSeated(gs, seats, s) ==
    \A seat \in seats :
       /\ HasRoom(gs[seat[1]].rooms, seat[2])
       /\ OthersSeated(GetRoom(gs[seat[1]].rooms, seat[2]), s)

\* What leaveRoom, forceLeaveGame and disconnect by an open connection,
\* ensureSingleEmptyRoom and the countdown callback return leaves every
\* occupied lobby room in place, or moved with its players.
KeptByHandlers ==
    ~crashed =>
       /\ \A s \in Sockets :
             sock[s] = "open" =>
                LET seats == OccupiedBeside(games, s)
                IN  /\ \A spawn \in Spawns :
                          StillSeated(disconnect(Cur, s, spawn).games, seats, s)
                    /\ \A k \in GameIds : \A target \in RoomInputs(k) :
                          /\ StillSeated(leaveRoom(Cur, s, k, target).games, seats, s)
                          /\ \A spawn \in Spawns :
                                StillSeated(
                                   forceLeaveGame(Cur, s, k, target, spawn).games,
                                   seats, s)
       /\ \A k \in GameIds :
             LET out == ensureSingleEmptyRoom(Cur, k)
             IN  /\ \A seat \in Occupied(games) :
                       /\ HasRoom(out.games[seat[1]].rooms, seat[2])
                       /\ GetRoom(out.games[seat[1]].rooms, seat[2])
                             = GetRoom(games[seat[1]].rooms, seat[2])
                 /\ EmptyRooms(games, k) >= 1 => EmptyRooms(out.games, k) = 1
       /\ timers # <<>> =>
             \A deck \in IF Head(timers).countdown = 1 THEN Decks ELSE {rankOrder} :
                \A spawn \in Spawns :
                   LET out == countdownTick(Cur, deck, spawn)
                   IN  \A seat \in Occupied(games) :
                          LET before == GetRoom(games[seat[1]].rooms, seat[2])
                          IN  \/ /\ HasRoom(out.games[seat[1]].rooms, seat[2])
                                 /\ GetRoom(out.games[seat[1]].rooms, seat[2]) = before
                              \/ /\ HasRoom(out.games[seat[1]].activeRooms, seat[2])
                                 /\ GetRoom(out.games[seat[1]].activeRooms,
                                            seat[2]).players = before.players

\* One step of the server: an occupied lobby room that held more than the
\* one player a step can remove is afterwards in the lobby, still occupied, or
\* among the active rooms with the same players; a game type that has an empty
\* room keeps one.
KeptByStep ==
    \A g \in GameIds :
       /\ \A i \in DOMAIN games[g].rooms :
             LET before == games[g].rooms[i]
             IN  Len(before.players) >= 2 =>
                    \/ /\ HasRoom(games'[g].rooms, before.id)
                       /\ GetRoom(games'[g].rooms, before.id).players # <<>>
                    \/ /\ HasRoom(games'[g].activeRooms, before.id)
                       /\ GetRoom(games'[g].activeRooms, before.id).players
                             = before.players
       /\ EmptyRooms(games, g) >= 1 => EmptyRooms(games', g) >= 1

\* C28: ensureSingleEmptyRoom, leaveRoom, forceLeaveGame and disconnect never
\* delete a lobby room that has a player; such a room leaves the lobby only
\* when the countdown moves it, players and all, to the active rooms; pruning
\* deletes zero-player rooms only, and leaves one of them.
C28_OccupiedRoomKept == []KeptByHandlers /\ [][KeptByStep]_vars

C28_Witness ==
    \E g \in GameIds, r \in RoomIds, s \in Sockets, spawn \in Spawns :
        /\ budget > 0 /\ ~crashed /\ sock[s] = "open"
        /\ InLobby(g, r) /\ HasPlayer(GetRoom(games[g].rooms, r), s)
        /\ OthersSeated(GetRoom(games[g].rooms, r), s)
        /\ \A out \in RemovingOutputs(g, r, s, spawn) :
              /\ ~out.err
              /\ HasRoom(out.games[g].rooms, r)
        /\ ~HasPlayer(GetRoom(leaveRoom(Cur, s, g, r).games[g].rooms, r), s)
        /\ ~HasPlayer(GetRoom(disconnect(Cur, s, spawn).games[g].rooms, r), s)

---------------------------------------------------------------------------
\* Game types without an engine (spec 4.4)

\* The game ids loadGameModule does not recognise: parseInt gives neither 1
\* nor 2.
Unregistered == GameKeys \ GameIds

\* Connection s asks for the rooms of game g, joins the room that is created,
\* reports ready, and the countdown runs to its end.
CountdownDone(st, s, g, spawn) ==
    LET listed == requestRooms(st, g)
        r == listed.games[g].rooms[1].id
        seated == joinRoom(Settled(listed), s, g, r)
        ready == toggleReady(Settled(seated), s, g, r, TRUE)
    IN  Ticks(Settled(ready), COUNTDOWN, rankOrder, spawn)

\* The room is among the active rooms, marked active, and no engine has
\* set it up.
ActiveWithoutEngine(gs, g, r) ==
    /\ HasRoom(gs[g].activeRooms, r)
    /\ GetRoom(gs[g].activeRooms, r).isActive
    /\ GetRoom(gs[g].activeRooms, r).engine = "none"

\* C29: when the countdown of a room of a game type without an engine ends,
\* the failure stays inside that call, the room is not left among the active
\* rooms marked active without engine state, and the rooms of the other game
\* types are as they were.
C29_NoEngineConfined ==
    ~crashed /\ timers = <<>> =>
       \A g \in Unregistered, s \in Sockets, spawn \in Spawns :
          LET out == CountdownDone(Cur, s, g, spawn)
          IN  sock[s] = "open" =>
              /\ ~out.err
              /\ \A r \in RoomIds : ~ActiveWithoutEngine(out.games, g, r)
              /\ \A k \in GameIds : out.games[k] = games[k]

---------------------------------------------------------------------------
\* Events that name no room (spec 4.7)

\* The event names a game type without an entry in games, or a room id that
\* is in neither the lobby nor the active rooms of the game type.
NamesNothing(g, r) ==
    \/ ~games[g].exists
    \/ ~HasRoom(games[g].rooms, r) /\ ~HasRoom(games[g].activeRooms, r)

\* What the handlers of the inbound events return for connection s naming
\* room r of game g, over every payload.
InboundOutputs(s, g, r) ==
    { joinRoom(Cur, s, g, r), leaveRoom(Cur, s, g, r), requestGameState(Cur, g, r) }
       \cup {toggleReady(Cur, s, g, r, isReady) : isReady \in BOOLEAN}
       \cup {handlePlayCard(Cur, s, g, r, card) : card \in CardInputs}
       \cup {handlePlayerMove(Cur, s, g, r, direction) : direction \in MoveInputs}
       \cup {handleShootBullet(Cur, s, g, r, bulletType, direction) :
                bulletType \in BulletTypes, direction \in DirInputs}
       \cup {endGameHandler(Cur, g, r, spawn) : spawn \in Spawns}
       \cup {forceLeaveGame(Cur, s, g, r, spawn) : spawn \in Spawns}

\* The game types that have an entry in games.
Entries(gs) == {g \in GameKeys : gs[g].exists}

\* C30: joinRoom, leaveRoom, toggleReady, playCard, playerMove, shoot,
\* requestGameState, endGame and forceLeaveGame naming a room that does not
\* exist, or a game type without an entry, raise no error and leave the set
\* of game-type entries and every room as they were.
C30_UnknownDropped ==
    ~crashed =>
       \A s \in Sockets, g \in GameKeys, r \in RoomIds \cup {AbsentRoom} :
          NamesNothing(g, r) =>
             \A out \in InboundOutputs(s, g, r) :
                /\ ~out.err
                /\ Entries(out.games) = Entries(games)
                /\ \A k \in GameKeys :
                      /\ out.games[k].rooms = games[k].rooms
                      /\ out.games[k].activeRooms = games[k].activeRooms

---------------------------------------------------------------------------
\* What the Biggest Tomato snapshot tells about the hands (spec 5.1)

\* A hand of the same size in which every card is the next rank up.
OtherRanks(hand) ==
    [i \in DOMAIN hand |-> rankOrder[((IndexOf(rankOrder, hand[i]) + 1) % DECK_SIZE) + 1]]

\* C31: the Biggest Tomato snapshot tells, for each player, how many cards
\* the player holds and not which: two rooms that differ only in the ranks in
\* one player's hand are broadcast alike.
C31_HandsHidden ==
    ~crashed =>
       \A g \in GameIds, r \in RoomIds :
          DuelRunning(g, r) =>
             LET theRoom == GetRoom(games[g].activeRooms, r)
             IN  \A s \in SeqToSet(theRoom.players) :
                    theRoom.obj[s].cards # <<>> =>
                       DuelBroadcast(Cur, g, theRoom).ev =
                          DuelBroadcast(Cur, g,
                             [theRoom EXCEPT !.obj[s].cards = OtherRanks(@)]).ev

---------------------------------------------------------------------------
\* The spatial index of players (spec 5.2)

\* The entries of the index that belong to connection s.
EntriesOf(room, s) ==
    {i \in DOMAIN room.playerSpatialIndex : room.playerSpatialIndex[i].socketId = s}

\* C32: in a running Agar.io room the spatial index has exactly one entry for
\* each player of the alive set, at the player's current position, and no
\* entry for anyone else (eliminated, disconnected or gone by forceLeaveGame).
C32_IndexMatchesAlive ==
    \A g \in GameIds, r \in RoomIds :
       ArenaRunning(g, r) =>
          LET theRoom == GetRoom(games[g].activeRooms, r)
          IN  \A s \in Sockets :
                 IF s \in theRoom.alivePlayers
                 THEN /\ Cardinality(EntriesOf(theRoom, s)) = 1
                      /\ \A i \in EntriesOf(theRoom, s) :
                            /\ theRoom.playerSpatialIndex[i].x = theRoom.obj[s].x
                            /\ theRoom.playerSpatialIndex[i].y = theRoom.obj[s].y
                 ELSE EntriesOf(theRoom, s) = {}

---------------------------------------------------------------------------
\* The room list sent when an Agar.io match ends (spec 5.2)

\* C33: on every path that ends an Agar.io match (tick, endGame,
\* forceLeaveGame, disconnect) the roomsList that follows gameEnded is sent
\* for that game type and lists exactly its lobby rooms as the server holds
\* them, the ended room not among them.
C33_EndBroadcastsLobby ==
    ~crashed =>
       \A g \in GameIds, r \in RoomIds :
          ArenaRunning(g, r) =>
             \A spawn \in Spawns :
                \A out \in EndingOutputs(g, r, spawn) :
                   ~out.err /\ ~HasRoom(out.games[g].activeRooms, r) =>
                      /\ Ended(out.ev) # {}
                      /\ \A i \in Ended(out.ev) :
                            /\ i + 1 \in DOMAIN out.ev
                            /\ out.ev[i + 1].type = "roomsList"
                            /\ out.ev[i + 1].g = g
                            /\ out.ev[i + 1].rooms = RoomIdsOf(out.games[g].rooms)
                            /\ \A j \in DOMAIN out.ev[i + 1].rooms :
                                  out.ev[i + 1].rooms[j] # r

---------------------------------------------------------------------------
\* Who is listed in the Agar.io snapshot (spec 5.2)

\* The gameStateUpdate events among the events.
Snapshots(events) == {i \in DOMAIN events : events[i].type = "gameStateUpdate"}

\* The players of the room's map that the bullet loop of a tick leaves, or
\* has left before, outside the alive set.
Shot(room) ==
    room.playersMap \ UpdateBulletsFrom(room, Len(room.bullets)).alivePlayers

\* C34: every snapshot of an Agar.io match, the one sent by the tick that
\* ends the match included, lists no player whom a bullet has eliminated in
\* this tick or before.
C34_SnapshotAliveOnly ==
    ~crashed =>
       \A g \in GameIds, r \in RoomIds :
          Ticking(g, r) =>
             LET before == GetRoom(games[g].activeRooms, r)
             IN  /\ \A spawn \in Spawns :
                       LET out == arenaTick(Cur, g, r, spawn)
                       IN  \A i \in Snapshots(out.ev) :
                              out.ev[i].players \cap Shot(before) = {}
                 /\ \A s \in Sockets, direction \in MoveInputs :
                       LET out == handlePlayerMove(Cur, s, g, r, direction)
                       IN  \A i \in Snapshots(out.ev) :
                              out.ev[i].players \cap
                                 (before.playersMap \ before.alivePlayers) = {}

---------------------------------------------------------------------------
\* How many players a lobby room takes (spec 3)

\* Five connections that ask to join one room, one after the other.
Arrivals == <<"s1", "s2", "s3", "s4", "s5">>

\* Each of the connections opens and sends joinRoom for room r of game g.
RECURSIVE JoinEach(_, _, _, _)
JoinEach(st, g, r, ids) ==
    IF st.err \/ ids = <<>> THEN st
    ELSE JoinEach(joinRoom(Settled(connection(st)), Head(ids), g, r), g, r, Tail(ids))

\* C35: a lobby room never seats more players than its maxPlayers (4): a
\* joinRoom on a room that holds maxPlayers players adds nobody.
C35_RoomNotOverfilled ==
    /\ \A g \in GameIds : \A i \in DOMAIN games[g].rooms :
          Len(games[g].rooms[i].players) <= games[g].rooms[i].maxPlayers
    /\ ~crashed =>
          \A g \in GameIds : \A i \in DOMAIN games[g].rooms :
             LET target == games[g].rooms[i].id
                 out == JoinEach(Cur, g, target, Arrivals)
             IN  ~out.err /\ HasRoom(out.games[g].rooms, target) =>
                    Len(GetRoom(out.games[g].rooms, target).players)
                       <= GetRoom(out.games[g].rooms, target).maxPlayers

---------------------------------------------------------------------------
\* Bullets leave the list (spec 5.2)

\* A bullet crosses the world in this many interval callbacks at most.
FlightTicks == (WORLD_WIDTH \div BULLET_SPEED) + 1

RECURSIVE RunTicks(_, _, _, _, _)
\* setInterval(() => updateBullets(...), 1000 / 60): the callback of the room
\* runs n times more, or until clearInterval or an exception stops it.
RunTicks(st, g, r, spawn, n) ==
    IF n = 0 \/ st.err \/ ~HasRoom(st.games[g].activeRooms, r) THEN st
    ELSE IF ~GetRoom(st.games[g].activeRooms, r).bulletInterval THEN st
    ELSE RunTicks(Settled(arenaTick(st, g, r, spawn)), g, r, spawn, n - 1)

\* The bullets of the room's list before the callbacks that are in the list
\* of the same room after them.
StillFlying(st, g, r, spawn, n) ==
    LET out == RunTicks(st, g, r, spawn, n)
    IN  IF out.err \/ ~HasRoom(out.games[g].activeRooms, r) THEN {}
        ELSE BulletIds(GetRoom(st.games[g].activeRooms, r).bullets)
                \cap BulletIds(GetRoom(out.games[g].activeRooms, r).bullets)

\* C36: while the interval callbacks of a running room keep coming, every
\* bullet that an accepted shoot has put in the list leaves it again, whatever
\* direction the validation accepted, the zero vector included: the callbacks
\* that take a bullet across the whole world leave none of the bullets of the
\* list in it.
C36_BulletsLeave ==
    ~crashed =>
       \A g \in GameIds, r \in RoomIds :
          Ticking(g, r) =>
             \A spawn \in Spawns : StillFlying(Cur, g, r, spawn, FlightTicks) = {}

---------------------------------------------------------------------------
\* The turn pointer of a card match (spec 5.1)

\* The turn of the room is with a seated player who is not eliminated, and
\* currentPlayerIndex is that player's place in room.players.
TurnOnSeat(room) ==
    /\ room.currentPlayerSocketId \in Alive(room)
    /\ room.currentPlayerIndex \in 0..(Len(room.players) - 1)
    /\ room.players[room.currentPlayerIndex + 1] = room.currentPlayerSocketId

\* C37: in a card match of activeRooms that has not ended, whatever playCard,
\* disconnect and forceLeaveGame events came before, the current-turn
\* connection id names a seated player who is not eliminated and
\* currentPlayerIndex is the index of that player in room.players.
C37_TurnOnSeatedPlayer ==
    \A g \in GameIds, r \in RoomIds :
       (DuelRunning(g, r) /\ GetRoom(games[g].activeRooms, r).winner = "null") =>
          TurnOnSeat(GetRoom(games[g].activeRooms, r))

---------------------------------------------------------------------------
\* The length of a card match (spec 5.1)

\* Rank of the card on top of the table; an empty table is below every card.
TopRank(room) ==
    IF room.playedCards = <<>> THEN -2
    ELSE Rank(room.playedCards[Len(room.playedCards)])

\* The accepted plays the room can still see: the ranks above the table, the
\* play that eliminates its player, and for every further player to go a
\* table climbed from the lowest card and one more elimination.
PlaysLeft(room) ==
    LET alive == Cardinality(Alive(room))
    IN  IF alive <= 1 THEN 0
        ELSE (DECK_SIZE - 1 - TopRank(room)) + 1 + (alive - 2) * (DECK_SIZE + 1)

\* An accepted play puts a card above the table or eliminates its player, and
\* leaves fewer plays to come or ends the match.
PlayAdvances ==
    ~crashed =>
       \A g \in GameIds, r \in RoomIds :
          DuelRunning(g, r) =>
             LET before == GetRoom(games[g].activeRooms, r)
             IN  \A s \in Sockets : \A card \in Playable(g, r, s) :
                    Accepted(before, s) =>
                       LET out == handlePlayCard(Cur, s, g, r, card)
                           after == PostRoom(out, g, r)
                       IN  /\ ~out.err
                           /\ Len(after.playedCards) = Len(before.playedCards) + 1
                           /\ after.obj[s].isDead \/ Rank(card) > TopRank(before)
                           /\ IF HasRoom(out.games[g].activeRooms, r)
                              THEN PlaysLeft(after) < PlaysLeft(before)
                              ELSE Cardinality(Alive(after)) <= 1

\* The plays made and the plays to come are no more than 13 for each seat.
PlaysBounded ==
    \A g \in GameIds, r \in RoomIds :
       (DuelRunning(g, r) /\ Len(GetRoom(games[g].activeRooms, r).players) >= 2) =>
          LET theRoom == GetRoom(games[g].activeRooms, r)
          IN  /\ PlaysLeft(theRoom) >= 0
              /\ Len(theRoom.playedCards) + PlaysLeft(theRoom)
                    <= DECK_SIZE * Len(theRoom.players)

\* A step that adds a card to the table of a running match leaves fewer
\* plays to come.
PlayCountsDown ==
    \A g \in GameIds, r \in RoomIds :
       (DuelRunning(g, r) /\ HasRoom(games'[g].activeRooms, r)) =>
          LET before == GetRoom(games[g].activeRooms, r)
              after == GetRoom(games'[g].activeRooms, r)
          IN  Len(after.playedCards) > Len(before.playedCards) =>
                 PlaysLeft(after) < PlaysLeft(before)

---------------------------------------------------------------------------
\* The seats of a started match (spec 4.2, 4.4)

\* The connections of room r of activeRooms in the games of a handler output.
SeatsIn(table, g, r) == SeqToSet(GetRoom(table[g].activeRooms, r).players)

\* joinRoom and toggleReady with the id of an active room leave the room in
\* activeRooms with the players it had.
ActiveRoomClosed ==
    ~crashed =>
       \A g \in GameIds, r \in RoomIds :
          InActive(g, r) =>
             \A s \in Sockets :
                Open(s) =>
                   \A out \in { joinRoom(Cur, s, g, r),
                                toggleReady(Cur, s, g, r, TRUE),
                                toggleReady(Cur, s, g, r, FALSE) } :
                      /\ HasRoom(out.games[g].activeRooms, r)
                      /\ GetRoom(out.games[g].activeRooms, r).players
                            = GetRoom(games[g].activeRooms, r).players

\* A step leaves an active room with players it had before, and a room that
\* becomes active has the players that the lobby room of that id had.
SeatsOnlyShrink ==
    \A g \in GameIds, r \in RoomIds :
       HasRoom(games'[g].activeRooms, r) =>
          IF InActive(g, r)
          THEN SeatsIn(games', g, r) \subseteq SeatsIn(games, g, r)
          ELSE /\ InLobby(g, r)
               /\ GetRoom(games'[g].activeRooms, r).players
                     = GetRoom(games[g].rooms, r).players

\* C39: once a room is in activeRooms its seated connections only become
\* fewer: no joinRoom, toggleReady or other event adds a connection to the
\* players of an active room, so the players of a match are among those
\* seated in the room when the countdown reached zero.
C39_ActiveSeatsShrink == []ActiveRoomClosed /\ [][SeatsOnlyShrink]_vars

\* An active room with a player, and an open connection that has no seat in it.
C39_Witness ==
    \E g \in GameIds, r \in RoomIds, s \in Sockets :
       /\ InActive(g, r)
       /\ GetRoom(games[g].activeRooms, r).players # <<>>
       /\ Open(s)
       /\ ~HasPlayer(GetRoom(games[g].activeRooms, r), s)

---------------------------------------------------------------------------
\* The bullet pool (spec 5.2)

\* The bullet objects of a list, by identity.
Refs(bullets) == [i \in DOMAIN bullets |-> bullets[i].ref]

\* No bullet object is in room.bullets and in room.bulletPool, none is twice
\* in either, and the bullets of room.bullets have distinct ids.
PoolSound(room) ==
    /\ Distinct(Refs(room.bullets))
    /\ Distinct(Refs(room.bulletPool))
    /\ SeqToSet(Refs(room.bullets)) \cap SeqToSet(Refs(room.bulletPool)) = {}
    /\ Distinct([i \in DOMAIN room.bullets |-> room.bullets[i].id])

\* The pool and the list of every running room are sound, and the bullet a
\* shoot appends holds the shooter, the shooter's position, the velocity of
\* the direction sent, the radius of the kind, no distance and the kind,
\* whatever the object held when it lay in the pool.
PoolKept ==
    ~crashed =>
       \A g \in GameIds, r \in RoomIds :
          ArenaRunning(g, r) =>
             LET before == GetRoom(games[g].activeRooms, r)
             IN  /\ PoolSound(before)
                 /\ \A s \in before.alivePlayers, kind \in ShootKinds, direction \in DirInputs :
                       LET out == handleShootBullet(Cur, s, g, r, kind, direction)
                           after == PostRoom(out, g, r)
                           n == Len(after.bullets)
                       IN  n > Len(before.bullets) =>
                           /\ PoolSound(after)
                           /\ after.bullets[n].ownerId = s
                           /\ after.bullets[n].x = before.obj[s].x
                           /\ after.bullets[n].y = before.obj[s].y
                           /\ after.bullets[n].vx = Velocity(direction, direction.x)
                           /\ after.bullets[n].vy = Velocity(direction, direction.y)
                           /\ after.bullets[n].radius
                                 = (IF kind = "fullyCharged"
                                    THEN RADIUS_FULLY_CHARGED
                                    ELSE RADIUS_CHARGED)
                           /\ after.bullets[n].traveled = 0
                           /\ after.bullets[n].type = kind
                           /\ after.bullets[n].id \notin BulletIds(before.bullets)

\* A step leaves the list and the pool of a room that stays active sound.
PoolMoves ==
    \A g \in GameIds, r \in RoomIds :
       (ArenaRunning(g, r) /\ HasRoom(games'[g].activeRooms, r)) =>
          PoolSound(GetRoom(games'[g].activeRooms, r))

\* C40: in every reachable state of an Agar.io room no bullet object is both
\* in the bullet list and in the pool, none occurs twice in either, and the
\* bullets of the list have pairwise distinct ids; an object that shoot takes
\* from the pool has its owner, position, velocity, radius, traveled distance
\* and kind overwritten before it enters the list.
C40_PoolDisjoint == []PoolKept /\ [][PoolMoves]_vars

\* A bullet in the list of a running room whose object came from the pool.
C40_Witness ==
    \E g \in GameIds, r \in RoomIds :
       /\ ArenaRunning(g, r)
       /\ \E i \in DOMAIN GetRoom(games[g].activeRooms, r).bullets :
             GetRoom(games[g].activeRooms, r).bullets[i].id
                # GetRoom(games[g].activeRooms, r).bullets[i].ref

=============
